---- MODULE Spec2Model ----
(***************************************************************************)
(* Model of xpose's capture core: the CapturedWindow operations of         *)
(* src/capture.rs (capture_window, create_placeholder_capture,             *)
(* refresh_capture, try_upgrade_placeholder, release_capture) and the      *)
(* part of run() in src/main.rs that drives them (capture phase, damage    *)
(* dispatcher, placeholder upgrade poll, cleanup).                         *)
(*                                                                         *)
(* The X server is modelled by the resources it holds for this client.     *)
(* Every x11rb call that the code checks (`?`, is_err, match) is a fail    *)
(* point: an operation takes the number f of the call that returns Err     *)
(* (0 = none). A request that returned Err had no effect on the server, a  *)
(* request that returned Ok was executed by the server, which rejects it   *)
(* (no effect, the client is not told) when its resource does not exist.   *)
(* Sequences are 1-based: captures[i] is the source's captures[i-1].       *)
(***************************************************************************)
EXTENDS Integers, Sequences, FiniteSets, TLC

\* ---- bounds ----
NumWindows == 2
NumSkipped == 1
MaxDim == 2
MaxIter == 1
MaxFaults == 1
MaxChanges == 1
MaxNotify == 5
IdBase == 100
MaxMinor == 2
MaxFormats == 2
MaxBatch == 2
CellWidth == 100
CellHeight == 60
TitleLen == 20

\* ---- constants of the source ----
padding == 20
margin == 50
BAR_HEIGHT == 120
clear_border_width == 5
border_width == 3
max_chars == 50
char_width == 6
text_height == 13
padding_h == 16
padding_v == 8

Windows == 1..NumWindows
SkippedWindows == (NumWindows + 1)..(NumWindows + NumSkipped)
AllWindows == Windows \cup SkippedWindows

\* WindowInfo as find_all_windows hands it to run(), with the nominal geometry.
WindowInfo(w) == [frame_window |-> w, x |-> 10 * w, width |-> 2, height |-> 1]

NoCapture == [info |-> WindowInfo(0), pixmap |-> 0, picture |-> 0, damage |-> 0]
CapturedWindow(info, pixmap, picture, damage) ==
  [info |-> info, pixmap |-> pixmap, picture |-> picture, damage |-> damage]

VARIABLES
  pc,                  \* position of run()
  winGeom,             \* server: current geometry of each window
  viewable,            \* server: windows that are mapped and have contents
  xconn,               \* connection: id allocator, server resources, requests of the last call
  windowIdx,           \* position of the `for window in &windows` loops
  captures,            \* Vec<CapturedWindow>
  placeholder_indices, \* HashSet<usize>
  skipped_captures,    \* Vec<CapturedWindow>
  damaged_windows,     \* HashSet<usize>
  todo,                \* rest of the HashSet iteration in progress
  upgraded,            \* Vec<usize> of the upgrade block
  notified,            \* captures named by a DamageNotify event read in the current iteration
  refreshCalls,        \* refresh_capture calls of the current iteration, per capture
  last,                \* the last capture operation called: arguments, result, state before
  omitted,             \* windows for which capture and placeholder both failed
  iter, faults, changes,
  exists,              \* server: windows that have not been destroyed
  setup,               \* server: what it answers to the queries of XConnection::new
  negotiated,          \* result of XConnection::new
  frame,               \* current iteration: needs_present, rectangles painted on the
                       \* overview pixmap, damage ids acknowledged
  placeholders,        \* captures made by create_placeholder_capture and not upgraded since
  paint,               \* renderer: the call or frame in progress and the requests it issued
  desk,                \* DesktopState and the last DesktopManager call made on it
  probe,               \* last call of a pure geometry function: arguments and result
  ui                   \* the overview's event loop: InputHandler, the locals of run(), the
                       \* server's windows, the last event and the action it produced

\* what a single call on its own leaves alone
idleVars == <<winGeom, viewable, xconn, windowIdx, captures, placeholder_indices,
              skipped_captures, damaged_windows, todo, upgraded, notified,
              refreshCalls, last, omitted, iter, faults, changes, exists, setup, negotiated,
              frame, placeholders>>
vars == <<pc, winGeom, viewable, xconn, windowIdx, captures, placeholder_indices,
          skipped_captures, damaged_windows, todo, upgraded, notified,
          refreshCalls, last, omitted, iter, faults, changes, exists, setup, negotiated,
          frame, placeholders, paint, desk, probe, ui>>

\* ---- the connection and the server behind it ----
Remove(f, k) == [x \in DOMAIN f \ {k} |-> f[x]]
Put(f, k, v) == [x \in DOMAIN f \cup {k} |-> IF x = k THEN v ELSE f[x]]
Req(c, name, id) == [c EXCEPT !.wire = Append(@, [req |-> name, id |-> id])]

\* XIDs are opaque and only compared for equality: the n-th id generated in a
\* call made for window w is named w * IdBase + n, so that calls made for
\* different windows commute.
NewId(c, w) == w * IdBase + c.nextId[w]
generate_id(c, w) == [c EXCEPT !.nextId[w] = @ + 1]

\* a request naming a window that does not exist is a Window error
redirect_window(c, w) ==
  IF exists[w]
  THEN [Req(c, "RedirectWindow", w) EXCEPT !.redirected = @ \cup {w}]
  ELSE Req(c, "RedirectWindow", w)
unredirect_window(c, w) ==
  [Req(c, "UnredirectWindow", w) EXCEPT !.redirected = @ \ {w}]
\* NameWindowPixmap is a Match error unless the window is redirected and viewable
name_window_pixmap(c, w, id) ==
  IF exists[w] /\ viewable[w] /\ w \in c.redirected
  THEN [Req(c, "NameWindowPixmap", id) EXCEPT !.pixmaps = Put(@, id, winGeom[w])]
  ELSE Req(c, "NameWindowPixmap", id)
create_pixmap(c, id, width, height) ==
  [Req(c, "CreatePixmap", id) EXCEPT
     !.pixmaps = Put(@, id, [width |-> width, height |-> height])]
free_pixmap(c, id) ==
  [Req(c, "FreePixmap", id) EXCEPT !.pixmaps = Remove(@, id)]
create_picture(c, id, pixmap) ==
  IF pixmap \in DOMAIN c.pixmaps
  THEN [Req(c, "CreatePicture", id) EXCEPT !.pictures = Put(@, id, pixmap)]
  ELSE Req(c, "CreatePicture", id)
free_picture(c, id) ==
  [Req(c, "FreePicture", id) EXCEPT !.pictures = Remove(@, id)]
damage_create(c, id, w) ==
  IF exists[w]
  THEN [Req(c, "DamageCreate", id) EXCEPT !.damages = Put(@, id, w)]
  ELSE Req(c, "DamageCreate", id)
damage_destroy(c, id) ==
  [Req(c, "DamageDestroy", id) EXCEPT !.damages = Remove(@, id)]
create_gc(c, id) == [Req(c, "CreateGC", id) EXCEPT !.gcs = @ \cup {id}]
free_gc(c, id) == [Req(c, "FreeGC", id) EXCEPT !.gcs = @ \ {id}]
get_geometry(c, id) == Req(c, "GetGeometry", id)
flush(c) == Req(c, "Flush", 0)

\* u16::min in place of u16::max
Max_min(a, b) == IF a >= b THEN b ELSE a
Max(a, b) == IF a >= b THEN a ELSE b
Res(ok, c, cap) == [ok |-> ok, conn |-> c, cap |-> cap]

\* ---- connection.rs: XConnection::new ----
\* The kinds of XposeError that wrap an x11rb error of a request or of its reply.
X11ErrorKinds == {"ConnectionError", "Reply"}
RECURSIVE SeqsUpTo(_, _)
SeqsUpTo(S, n) ==
  IF n = 0 THEN {<<>>}
  ELSE LET shorter == SeqsUpTo(S, n - 1) IN
       shorter \cup {Append(q, x) : q \in {r \in shorter : Len(r) = n - 1}, x \in S}
\* A server: display reachable, Composite (an absent extension has no version),
\* Render and Damage present, depth of the root window, advertised formats
\* (the formats of the QueryPictFormats reply; the id of a format is its place
\* in the list).
Setups ==
  {[display |-> dp,
    composite |-> v,
    render |-> r, damage |-> dm, root_depth |-> 24,
    formats |-> [k \in DOMAIN fs |-> [id |-> k, depth |-> fs[k].depth, type_ |-> fs[k].type_]]] :
     dp \in BOOLEAN,
     v \in {x \in [present : BOOLEAN, major_version : 0..1, minor_version : 0..MaxMinor] :
              x.present \/ (x.major_version = 0 /\ x.minor_version = 0)},
     r \in BOOLEAN, dm \in BOOLEAN,
     fs \in SeqsUpTo({[depth |-> d, type_ |-> t] : d \in {24, 32}, t \in {"DIRECT", "INDEXED"}},
                     MaxFormats)}
GoodSetup == [display |-> TRUE,
              composite |-> [present |-> TRUE, major_version |-> 0, minor_version |-> 2],
              render |-> TRUE, damage |-> TRUE, root_depth |-> 24,
              formats |-> <<[id |-> 1, depth |-> 24, type_ |-> "DIRECT"]>>]

\* the version check accepting every version
VersionTooOld_never(v) == FALSE
\* composite_version.major_version == 0 && composite_version.minor_version < 2
VersionTooOld(v) == v.major_version = 0 /\ v.minor_version < 2

\* find() looking at the depth only
find_format_any_type(formats, root_depth) ==
  IF \E i \in DOMAIN formats : formats[i].depth = root_depth
  THEN CHOOSE i \in DOMAIN formats :
         /\ formats[i].depth = root_depth
         /\ \A j \in 1..(i - 1) : formats[j].depth # root_depth
  ELSE 0
\* formats.iter().find(|f| f.depth == screen.root_depth && f.type_ == DIRECT):
\* the place of the first such format, 0 for None
find_format(formats, root_depth) ==
  IF \E i \in DOMAIN formats : formats[i].depth = root_depth /\ formats[i].type_ = "DIRECT"
  THEN CHOOSE i \in DOMAIN formats :
         /\ formats[i].depth = root_depth /\ formats[i].type_ = "DIRECT"
         /\ \A j \in 1..(i - 1) : ~(formats[j].depth = root_depth /\ formats[j].type_ = "DIRECT")
  ELSE 0

Failed(err, queries) == [ok |-> FALSE, err |-> err, pict_format_rgb |-> 0, queries |-> queries]
\* XConnection::new against server s; e is the kind of the error of a query
\* that fails because the server lacks the extension.
XConnection_new(s, e) ==
  IF ~s.display THEN Failed("Connection", <<>>) ELSE
  LET q1 == <<"composite::query_version">> IN
  IF ~s.composite.present THEN Failed(e, q1) ELSE
  IF VersionTooOld(s.composite) THEN Failed("NoComposite", q1) ELSE
  LET q2 == Append(q1, "render::query_version") IN
  IF ~s.render THEN Failed(e, q2) ELSE
  LET q3 == Append(q2, "render::query_pict_formats")
      found == find_format(s.formats, s.root_depth) IN
  IF found = 0 THEN Failed("NoPictFormat", q3) ELSE
  LET q4 == Append(q3, "damage::query_version") IN
  IF ~s.damage THEN Failed(e, q4) ELSE
  [ok |-> TRUE, err |-> "none", pict_format_rgb |-> s.formats[found].id, queries |-> q4]

\* ---- window_finder.rs ----
\* The children of the root window, bottom to top, and what
\* examine_frame_including_unmapped makes of each: the first NumWindows are
\* application windows, the next NumSkipped are skipped, the last is ignored.
examine_frame_including_unmapped(frame_window) ==
  IF frame_window \in Windows THEN "Managed"
  ELSE IF frame_window \in SkippedWindows THEN "Skipped" ELSE "Ignored"
\* find_all_windows pushing a skipped window on both lists
RECURSIVE find_all_windows_both(_)
find_all_windows_both(children) ==
  IF children = <<>> THEN [windows |-> <<>>, skipped |-> <<>>]
  ELSE LET frame_window == children[Len(children)]
           r == find_all_windows_both(SubSeq(children, 1, Len(children) - 1))
           kind == examine_frame_including_unmapped(frame_window) IN
       IF kind = "Managed" THEN [r EXCEPT !.windows = Append(@, WindowInfo(frame_window))]
       ELSE IF kind = "Skipped"
       THEN [windows |-> Append(r.windows, WindowInfo(frame_window)),
             skipped |-> Append(r.skipped, WindowInfo(frame_window))]
       ELSE r
\* `for frame_window in tree.children`: (windows, skipped)
RECURSIVE find_all_windows(_)
find_all_windows(children) ==
  IF children = <<>> THEN [windows |-> <<>>, skipped |-> <<>>]
  ELSE LET frame_window == children[Len(children)]
           r == find_all_windows(SubSeq(children, 1, Len(children) - 1))
           kind == examine_frame_including_unmapped(frame_window) IN
       IF kind = "Managed" THEN [r EXCEPT !.windows = Append(@, WindowInfo(frame_window))]
       ELSE IF kind = "Skipped" THEN [r EXCEPT !.skipped = Append(@, WindowInfo(frame_window))]
       ELSE r
windows == find_all_windows([k \in 1..(NumWindows + NumSkipped + 1) |-> k]).windows
skipped_windows == find_all_windows([k \in 1..(NumWindows + NumSkipped + 1) |-> k]).skipped

\* ---- capture.rs ----
\* capture_window keeping the caller's geometry (lines 50-53 left out)
capture_window_nominal(c0, info, f) ==
  IF f = 1 THEN Res(FALSE, c0, NoCapture) ELSE
  LET c1 == redirect_window(c0, info.frame_window) IN
  IF f = 2 THEN Res(FALSE, c1, NoCapture) ELSE
  LET pixmap == NewId(c1, info.frame_window)
      c2 == generate_id(c1, info.frame_window) IN
  IF f = 3 THEN Res(FALSE, c2, NoCapture) ELSE
  LET c3 == name_window_pixmap(c2, info.frame_window, pixmap) IN
  IF f = 4 THEN Res(FALSE, c3, NoCapture) ELSE
  LET c4 == get_geometry(c3, pixmap) IN
  IF f = 5 \/ pixmap \notin DOMAIN c4.pixmaps THEN Res(FALSE, c4, NoCapture) ELSE
  IF f = 6 THEN Res(FALSE, c4, NoCapture) ELSE
  LET picture == NewId(c4, info.frame_window)
      c5 == generate_id(c4, info.frame_window) IN
  IF f = 7 THEN Res(FALSE, c5, NoCapture) ELSE
  LET c6 == create_picture(c5, picture, pixmap) IN
  IF f = 8 THEN Res(FALSE, c6, NoCapture) ELSE
  LET damage_id == NewId(c6, info.frame_window)
      c7 == generate_id(c6, info.frame_window) IN
  IF f = 9 THEN Res(FALSE, c7, NoCapture) ELSE
  LET c8 == damage_create(c7, damage_id, info.frame_window) IN
  IF f = 10 THEN Res(FALSE, c8, NoCapture) ELSE
  Res(TRUE, flush(c8), CapturedWindow(info, pixmap, picture, damage_id))

capture_window(c0, info, f) ==
  IF f = 1 THEN Res(FALSE, c0, NoCapture) ELSE
  LET c1 == redirect_window(c0, info.frame_window) IN
  IF f = 2 THEN Res(FALSE, c1, NoCapture) ELSE
  LET pixmap == NewId(c1, info.frame_window)
      c2 == generate_id(c1, info.frame_window) IN
  IF f = 3 THEN Res(FALSE, c2, NoCapture) ELSE
  LET c3 == name_window_pixmap(c2, info.frame_window, pixmap) IN
  IF f = 4 THEN Res(FALSE, c3, NoCapture) ELSE
  LET c4 == get_geometry(c3, pixmap) IN
  IF f = 5 \/ pixmap \notin DOMAIN c4.pixmaps THEN Res(FALSE, c4, NoCapture) ELSE
  LET pixmap_geom == c4.pixmaps[pixmap] IN
  IF f = 6 THEN Res(FALSE, c4, NoCapture) ELSE
  LET picture == NewId(c4, info.frame_window)
      c5 == generate_id(c4, info.frame_window) IN
  IF f = 7 THEN Res(FALSE, c5, NoCapture) ELSE
  LET c6 == create_picture(c5, picture, pixmap) IN
  IF f = 8 THEN Res(FALSE, c6, NoCapture) ELSE
  LET damage_id == NewId(c6, info.frame_window)
      c7 == generate_id(c6, info.frame_window) IN
  IF f = 9 THEN Res(FALSE, c7, NoCapture) ELSE
  LET c8 == damage_create(c7, damage_id, info.frame_window) IN
  IF f = 10 THEN Res(FALSE, c8, NoCapture) ELSE
  LET c9 == flush(c8)
      captured_info == [info EXCEPT !.width = pixmap_geom.width,
                                    !.height = pixmap_geom.height] IN
  Res(TRUE, c9, CapturedWindow(captured_info, pixmap, picture, damage_id))

release_capture(c0, capture, f) ==
  IF f = 1 THEN Res(FALSE, c0, capture) ELSE
  LET c1 == damage_destroy(c0, capture.damage) IN
  IF f = 2 THEN Res(FALSE, c1, capture) ELSE
  LET c2 == free_picture(c1, capture.picture) IN
  IF f = 3 THEN Res(FALSE, c2, capture) ELSE
  LET c3 == free_pixmap(c2, capture.pixmap) IN
  IF f = 4 THEN Res(FALSE, c3, capture) ELSE
  LET c4 == unredirect_window(c3, capture.info.frame_window) IN
  Res(TRUE, c4, capture)

refresh_capture(c0, capture, f) ==
  IF f = 1 THEN Res(FALSE, c0, capture) ELSE
  LET c1 == free_picture(c0, capture.picture) IN
  IF f = 2 THEN Res(FALSE, c1, capture) ELSE
  LET c2 == free_pixmap(c1, capture.pixmap) IN
  IF f = 3 THEN Res(FALSE, c2, capture) ELSE
  LET pixmap == NewId(c2, capture.info.frame_window)
      c3 == generate_id(c2, capture.info.frame_window) IN
  IF f = 4 THEN Res(FALSE, c3, capture) ELSE
  LET c4 == name_window_pixmap(c3, capture.info.frame_window, pixmap) IN
  IF f = 5 THEN Res(FALSE, c4, capture) ELSE
  LET picture == NewId(c4, capture.info.frame_window)
      c5 == generate_id(c4, capture.info.frame_window) IN
  IF f = 6 THEN Res(FALSE, c5, capture) ELSE
  LET c6 == create_picture(c5, picture, pixmap) IN
  IF f = 7 THEN Res(FALSE, c6, capture) ELSE
  LET c7 == flush(c6) IN
  Res(TRUE, c7, [capture EXCEPT !.pixmap = pixmap, !.picture = picture])

\* f = 1: the ignored redirect_window returned Err; f >= 2: the call that returns Err.
create_placeholder_capture(c0, info, f) ==
  LET c1 == IF f = 1 THEN c0 ELSE redirect_window(c0, info.frame_window) IN
  IF f = 2 THEN Res(FALSE, c1, NoCapture) ELSE
  LET pixmap == NewId(c1, info.frame_window)
      c2 == generate_id(c1, info.frame_window) IN
  IF f = 3 THEN Res(FALSE, c2, NoCapture) ELSE
  LET c3 == create_pixmap(c2, pixmap, Max(info.width, 1), Max(info.height, 1)) IN
  IF f = 4 THEN Res(FALSE, c3, NoCapture) ELSE
  LET gc == NewId(c3, info.frame_window)
      c4 == generate_id(c3, info.frame_window) IN
  IF f = 5 THEN Res(FALSE, c4, NoCapture) ELSE
  LET c5 == create_gc(c4, gc) IN
  IF f = 6 THEN Res(FALSE, c5, NoCapture) ELSE
  LET c6 == Req(c5, "PolyFillRectangle", pixmap) IN
  IF f = 7 THEN Res(FALSE, c6, NoCapture) ELSE
  LET c7 == free_gc(c6, gc) IN
  IF f = 8 THEN Res(FALSE, c7, NoCapture) ELSE
  LET picture == NewId(c7, info.frame_window)
      c8 == generate_id(c7, info.frame_window) IN
  IF f = 9 THEN Res(FALSE, c8, NoCapture) ELSE
  LET c9 == create_picture(c8, picture, pixmap) IN
  IF f = 10 THEN Res(FALSE, c9, NoCapture) ELSE
  LET damage_id == NewId(c9, info.frame_window)
      c10 == generate_id(c9, info.frame_window) IN
  IF f = 11 THEN Res(FALSE, c10, NoCapture) ELSE
  LET c11 == damage_create(c10, damage_id, info.frame_window) IN
  IF f = 12 THEN Res(FALSE, c11, NoCapture) ELSE
  LET c12 == flush(c11) IN
  Res(TRUE, c12, CapturedWindow(info, pixmap, picture, damage_id))

\* f in 7..9: an ignored (`let _ =`) call of the success path returned Err.
\* try_upgrade_placeholder freeing the old handles before the attempt, as
\* refresh_capture does
try_upgrade_placeholder_free_first(c0, capture, f) ==
  LET b1 == free_picture(c0, capture.picture)
      b2 == free_pixmap(b1, capture.pixmap) IN
  IF f = 1 THEN Res(FALSE, b2, capture) ELSE
  LET new_pixmap == NewId(b2, capture.info.frame_window)
      c1 == generate_id(b2, capture.info.frame_window) IN
  IF f = 2 THEN Res(FALSE, c1, capture) ELSE
  LET c2 == name_window_pixmap(c1, capture.info.frame_window, new_pixmap) IN
  IF f = 3 THEN Res(FALSE, free_pixmap(c2, new_pixmap), capture) ELSE
  LET c3 == get_geometry(c2, new_pixmap) IN
  IF f = 4 \/ new_pixmap \notin DOMAIN c3.pixmaps
  THEN Res(FALSE, free_pixmap(c3, new_pixmap), capture) ELSE
  LET geom == c3.pixmaps[new_pixmap] IN
  IF f = 5 THEN Res(FALSE, free_pixmap(c3, new_pixmap), capture) ELSE
  LET new_picture == NewId(c3, capture.info.frame_window)
      c4 == generate_id(c3, capture.info.frame_window) IN
  IF f = 6 THEN Res(FALSE, free_pixmap(c4, new_pixmap), capture) ELSE
  LET c5 == create_picture(c4, new_picture, new_pixmap)
      c8 == IF f = 9 THEN c5 ELSE flush(c5) IN
  Res(TRUE, c8, [capture EXCEPT !.pixmap = new_pixmap, !.picture = new_picture,
                                !.info.width = geom.width, !.info.height = geom.height])

\* try_upgrade_placeholder without the free_pixmap(new_pixmap) of the error paths
try_upgrade_placeholder_no_cleanup(c0, capture, f) ==
  IF f = 1 THEN Res(FALSE, c0, capture) ELSE
  LET new_pixmap == NewId(c0, capture.info.frame_window)
      c1 == generate_id(c0, capture.info.frame_window) IN
  IF f = 2 THEN Res(FALSE, c1, capture) ELSE
  LET c2 == name_window_pixmap(c1, capture.info.frame_window, new_pixmap) IN
  IF f = 3 THEN Res(FALSE, c2, capture) ELSE
  LET c3 == get_geometry(c2, new_pixmap) IN
  IF f = 4 \/ new_pixmap \notin DOMAIN c3.pixmaps THEN Res(FALSE, c3, capture) ELSE
  LET geom == c3.pixmaps[new_pixmap] IN
  IF f = 5 THEN Res(FALSE, c3, capture) ELSE
  LET new_picture == NewId(c3, capture.info.frame_window)
      c4 == generate_id(c3, capture.info.frame_window) IN
  IF f = 6 THEN Res(FALSE, c4, capture) ELSE
  LET c5 == create_picture(c4, new_picture, new_pixmap)
      c6 == IF f = 7 THEN c5 ELSE free_picture(c5, capture.picture)
      c7 == IF f = 8 THEN c6 ELSE free_pixmap(c6, capture.pixmap)
      c8 == IF f = 9 THEN c7 ELSE flush(c7) IN
  Res(TRUE, c8, [capture EXCEPT !.pixmap = new_pixmap, !.picture = new_picture,
                                !.info.width = geom.width, !.info.height = geom.height])

try_upgrade_placeholder(c0, capture, f) ==
  IF f = 1 THEN Res(FALSE, c0, capture) ELSE
  LET new_pixmap == NewId(c0, capture.info.frame_window)
      c1 == generate_id(c0, capture.info.frame_window) IN
  IF f = 2 THEN Res(FALSE, c1, capture) ELSE
  LET c2 == name_window_pixmap(c1, capture.info.frame_window, new_pixmap) IN
  IF f = 3 THEN Res(FALSE, free_pixmap(c2, new_pixmap), capture) ELSE
  LET c3 == get_geometry(c2, new_pixmap) IN
  IF f = 4 \/ new_pixmap \notin DOMAIN c3.pixmaps
  THEN Res(FALSE, free_pixmap(c3, new_pixmap), capture) ELSE
  LET geom == c3.pixmaps[new_pixmap] IN
  IF f = 5 THEN Res(FALSE, free_pixmap(c3, new_pixmap), capture) ELSE
  LET new_picture == NewId(c3, capture.info.frame_window)
      c4 == generate_id(c3, capture.info.frame_window) IN
  IF f = 6 THEN Res(FALSE, free_pixmap(c4, new_pixmap), capture) ELSE
  LET c5 == create_picture(c4, new_picture, new_pixmap)
      c6 == IF f = 7 THEN c5 ELSE free_picture(c5, capture.picture)
      c7 == IF f = 8 THEN c6 ELSE free_pixmap(c6, capture.pixmap)
      c8 == IF f = 9 THEN c7 ELSE flush(c7) IN
  Res(TRUE, c8, [capture EXCEPT !.pixmap = new_pixmap, !.picture = new_picture,
                                !.info.width = geom.width, !.info.height = geom.height])

\* ---- layout.rs, renderer.rs ----
Rectangle(x, y, width, height) == [x |-> x, y |-> y, width |-> width, height |-> height]
Grow(r, b) == Rectangle(r.x - b, r.y - b, r.width + 2 * b, r.height + 2 * b)
\* the overview pixmap, one row of NumWindows cells under the desktop bar
Canvas == Rectangle(0, 0, 2 * margin + NumWindows * CellWidth + (NumWindows - 1) * padding,
                    BAR_HEIGHT + 2 * margin + CellHeight)
\* the layout of captures[window_index]: its cell of the grid
ThumbnailLayout(window_index) ==
  Rectangle(margin + (window_index - 1) * (CellWidth + padding), BAR_HEIGHT + margin,
            CellWidth, CellHeight)
\* clear_thumbnail_area clearing the whole overview, as clear_overview does
clear_thumbnail_area_all(layout) == Canvas
\* the rectangle that clear_thumbnail_area fills with the background
clear_thumbnail_area(layout) == Grow(layout, clear_border_width)
\* the rectangle that render_thumbnail composites the picture to
render_thumbnail(layout) == layout
\* the extent of the outline that draw_thumbnail_border draws with lines of
\* width border_width around the layout grown by border_width
draw_thumbnail_border(layout) == Grow(layout, border_width + (border_width + 1) \div 2)
\* the rectangle that render_desktop_bar_background fills
render_desktop_bar == Rectangle(0, 0, Canvas.width, BAR_HEIGHT)
\* the label that draw_title_label centres on the thumbnail, for a title of n bytes
draw_title_label(layout, n) ==
  LET text_width == (IF n > max_chars THEN max_chars ELSE n) * char_width
      label_width == text_width + padding_h * 2
      label_height == text_height + padding_v * 2
      \* i16 division, which truncates towards zero
      half(a) == IF a >= 0 THEN a \div 2 ELSE -((-a) \div 2) IN
  Rectangle(layout.x + half(layout.width - label_width),
            layout.y + half(layout.height - label_height), label_width, label_height)
\* redraw_thumbnail(.., window_index, highlighted): the rectangles painted
redraw_thumbnail(window_index, highlighted) ==
  LET layout == ThumbnailLayout(window_index) IN
  {clear_thumbnail_area(layout), render_thumbnail(layout), draw_thumbnail_border(layout)}
    \cup (IF highlighted THEN {draw_title_label(layout, TitleLen)} ELSE {})

\* ---- main.rs: run() ----
NoFrame == [needs_present |-> FALSE, painted |-> {}, acked |-> {}]
\* removal of the upgraded indices left out
remove_upgraded_none(indices, up) == indices
\* `for idx in upgraded { placeholder_indices.remove(&idx); }`
remove_upgraded(indices, up) == indices \ up
Start(c) == [c EXCEPT !.wire = <<>>]
Alive(c, cap) == [pixmap |-> cap.pixmap \in DOMAIN c.pixmaps,
                  picture |-> cap.picture \in DOMAIN c.pictures,
                  damage |-> cap.damage \in DOMAIN c.damages]
Call(op, ok, win, idx, pre) ==
  [op |-> op, ok |-> ok, win |-> win, idx |-> idx, pre |-> pre,
   id0 |-> xconn.nextId[win], alive |-> Alive(xconn, pre)]
NoCall == [op |-> "none", ok |-> TRUE, win |-> 0, idx |-> 0, pre |-> NoCapture,
           id0 |-> 0, alive |-> [pixmap |-> FALSE, picture |-> FALSE, damage |-> FALSE]]
NoBatch == [d \in {} |-> 0]
NoRefreshCalls == [i \in Windows |-> 0]

Inject(f) ==
  /\ f # 0 => faults < MaxFaults
  /\ faults' = IF f # 0 THEN faults + 1 ELSE faults

\* the state of run() and of the server's windows when the capture phase starts;
\* the last managed window may have been destroyed since find_all_windows
InitRun ==
  /\ winGeom = [w \in AllWindows |-> IF w = 1 THEN [width |-> MaxDim + 1, height |-> MaxDim]
                                               ELSE [width |-> 2, height |-> 1]]
  /\ viewable \in [AllWindows -> BOOLEAN]
  /\ \A w \in SkippedWindows : viewable[w]
  /\ exists \in [AllWindows -> BOOLEAN]
  /\ \A w \in AllWindows : ~exists[w] => (w = NumWindows /\ ~viewable[w])
  /\ xconn = [nextId |-> [w \in AllWindows |-> 1], pixmaps |-> NoBatch, pictures |-> NoBatch,
              damages |-> NoBatch, gcs |-> {}, redirected |-> {}, wire |-> <<>>]
  /\ windowIdx = 1
  /\ captures = <<>>
  /\ placeholder_indices = {}
  /\ skipped_captures = <<>>
  /\ damaged_windows = {}
  /\ todo = {}
  /\ upgraded = {}
  /\ notified = {}
  /\ refreshCalls = NoRefreshCalls
  /\ last = NoCall
  /\ omitted = {}
  /\ iter = 0
  /\ faults = 0
  /\ changes = 0
  /\ frame = NoFrame
  /\ placeholders = {}

\* no call made yet
Idle == [op |-> "none"]
InitIdle == paint = Idle /\ desk = Idle /\ probe = Idle /\ ui = Idle

Init ==
  /\ pc = "capture"
  /\ setup = GoodSetup
  /\ negotiated = XConnection_new(GoodSetup, "Reply")
  /\ InitRun
  /\ InitIdle

\* `let xconn = XConnection::new()?;`
InitNew ==
  /\ pc = "new"
  /\ setup \in Setups
  /\ negotiated = [ok |-> FALSE, err |-> "none", pict_format_rgb |-> 0, queries |-> <<>>]
  /\ InitRun
  /\ InitIdle

Negotiate ==
  /\ pc = "new"
  /\ \E e \in X11ErrorKinds :
       /\ negotiated' = XConnection_new(setup, e)
       /\ pc' = IF negotiated'.ok THEN "negotiated" ELSE "failed"
  /\ UNCHANGED <<paint, desk, probe, ui, frame, placeholders, exists, setup, winGeom, viewable, xconn, windowIdx, captures,
                 placeholder_indices, skipped_captures, damaged_windows, todo, upgraded,
                 notified, refreshCalls, last, omitted, iter, faults, changes>>

\* end of the body of `for window in &windows`: next window, or the code after the loop
NextManaged(caps) ==
  IF windowIdx < Len(windows)
  THEN pc' = "capture" /\ windowIdx' = windowIdx + 1
  ELSE /\ windowIdx' = 1
       /\ pc' = IF caps = <<>> THEN "done"
                ELSE IF skipped_windows # <<>> THEN "skipped" ELSE "wait"

CaptureManaged ==
  /\ pc = "capture"
  /\ \E f \in (0..10) :
       LET r == capture_window(Start(xconn), windows[windowIdx], f) IN
       /\ Inject(f)
       /\ xconn' = r.conn
       /\ last' = Call("capture_window", r.ok, windows[windowIdx].frame_window, 0, NoCapture)
       /\ IF r.ok
          THEN captures' = Append(captures, r.cap) /\ NextManaged(captures')
          ELSE captures' = captures /\ pc' = "placeholder" /\ windowIdx' = windowIdx
  /\ UNCHANGED <<paint, desk, probe, ui, frame, placeholders, exists, setup, negotiated, winGeom, viewable, placeholder_indices, skipped_captures, damaged_windows,
                 todo, upgraded, notified, refreshCalls, omitted, iter, changes>>

PlaceholderManaged ==
  /\ pc = "placeholder"
  /\ \E f \in (0..12) :
       LET r == create_placeholder_capture(Start(xconn), windows[windowIdx], f) IN
       /\ Inject(f)
       /\ xconn' = r.conn
       /\ last' = Call("create_placeholder_capture", r.ok, windows[windowIdx].frame_window,
                       0, NoCapture)
       /\ IF r.ok
          THEN /\ placeholder_indices' = placeholder_indices \cup {Len(captures) + 1}
               /\ placeholders' = placeholders \cup {Len(captures) + 1}
               /\ captures' = Append(captures, r.cap)
               /\ omitted' = omitted
          ELSE /\ placeholder_indices' = placeholder_indices
               /\ placeholders' = placeholders
               /\ captures' = captures
               /\ omitted' = omitted \cup {windows[windowIdx].frame_window}
       /\ NextManaged(captures')
  /\ UNCHANGED <<paint, desk, probe, ui, frame, exists, setup, negotiated, winGeom, viewable, skipped_captures, damaged_windows, todo, upgraded,
                 notified, refreshCalls, iter, changes>>

CaptureSkipped ==
  /\ pc = "skipped"
  /\ \E f \in (0..10) :
       LET r == capture_window(Start(xconn), skipped_windows[windowIdx], f) IN
       /\ Inject(f)
       /\ xconn' = r.conn
       /\ last' = Call("capture_window", r.ok, skipped_windows[windowIdx].frame_window,
                       0, NoCapture)
       /\ skipped_captures' = IF r.ok THEN Append(skipped_captures, r.cap)
                              ELSE skipped_captures
  /\ IF windowIdx < Len(skipped_windows)
     THEN pc' = "skipped" /\ windowIdx' = windowIdx + 1
     ELSE pc' = "wait" /\ windowIdx' = 1
  /\ UNCHANGED <<paint, desk, probe, ui, frame, placeholders, exists, setup, negotiated, winGeom, viewable, captures, placeholder_indices, damaged_windows, todo,
                 upgraded, notified, refreshCalls, omitted, iter, changes>>

\* position() comparing the event's damage id with the pixmap handle
Position_pixmap(caps, d) ==
  IF \E i \in 1..Len(caps) : caps[i].pixmap = d
  THEN CHOOSE i \in 1..Len(caps) :
         caps[i].pixmap = d /\ \A j \in 1..(i - 1) : caps[j].pixmap # d
  ELSE 0

\* captures.iter().position(|c| c.damage == damage_event.damage), 0 for None
Position(caps, d) ==
  IF \E i \in 1..Len(caps) : caps[i].damage = d
  THEN CHOOSE i \in 1..Len(caps) :
         caps[i].damage = d /\ \A j \in 1..(i - 1) : caps[j].damage # d
  ELSE 0


\* the DamageNotify events of a batch, from the number read for each damage id
RECURSIVE EventsOf(_)
EventsOf(counts) ==
  IF DOMAIN counts = {} THEN <<>>
  ELSE LET d == CHOOSE x \in DOMAIN counts : \A y \in DOMAIN counts : x <= y IN
       [k \in 1..counts[d] |-> d] \o EventsOf(Remove(counts, d))

\* `for event in events`, DamageNotify branch: the new damaged_windows and the
\* damage ids acknowledged with xdamage::subtract
RECURSIVE HandleDamage(_, _, _)
HandleDamage(events, damaged, acked) ==
  IF events = <<>> THEN [damaged |-> damaged, acked |-> acked]
  ELSE LET d == Head(events)
           idx == Position(captures, d) IN
       IF idx # 0
       THEN HandleDamage(Tail(events), damaged \cup {idx}, acked \cup {d})
       ELSE HandleDamage(Tail(events), damaged, acked)



\* `xconn.conn.wait_for_event()?` returning Err
WaitForEventFails ==
  /\ pc = "wait"
  /\ Inject(1)
  /\ pc' = "aborted"
  /\ UNCHANGED <<paint, desk, probe, ui, frame, placeholders, exists, setup, negotiated, winGeom, viewable, xconn,
                 windowIdx, captures, placeholder_indices, skipped_captures,
                 damaged_windows, todo, upgraded, notified, refreshCalls, last, omitted,
                 iter, changes>>

\* One pass of the `for event in events` loop. The batch holds counts[d]
\* DamageNotify events for damage id d, for at most MaxBatch ids, then (exit) an input event that sets
\* should_exit.
Drain ==
  /\ pc = "wait"
  /\ \E S \in SUBSET DOMAIN xconn.damages, n \in {1, MaxNotify}, exit \in BOOLEAN :
       \* the batch in which the damage ids of S are notified, the first of them n times
       LET counts == [d \in DOMAIN xconn.damages |->
                        IF d \notin S THEN 0 ELSE IF \A y \in S : d <= y THEN n ELSE 1]
           h == HandleDamage(EventsOf(counts), damaged_windows, {})
           all == captures \o skipped_captures IN
       /\ S = {} => n = 1
       /\ Cardinality(S) <= MaxBatch
       /\ exit \/ iter < MaxIter
       /\ xconn' = Start(xconn)
       /\ damaged_windows' = h.damaged
       /\ notified' = {i \in 1..Len(all) : all[i].damage \in S}
       /\ frame' = [NoFrame EXCEPT !.acked = h.acked]
       /\ windowIdx' = 1
       /\ IF exit THEN pc' = "cleanup" /\ todo' = {}
          ELSE IF h.damaged # {} THEN pc' = "refresh" /\ todo' = h.damaged
          ELSE pc' = (IF placeholder_indices # {} THEN "upgrade" ELSE "frame_end") /\ todo' = placeholder_indices
  /\ UNCHANGED <<paint, desk, probe, ui, placeholders, exists, setup, negotiated, winGeom, viewable, captures,
                 placeholder_indices, skipped_captures, upgraded, refreshCalls, last,
                 omitted, iter, faults, changes>>

\* body of `for &idx in &damaged_windows`; g = 1: redraw_thumbnail returned
\* Err; highlighted: last_hovered == Some(idx)
RefreshStep ==
  /\ pc = "refresh"
  /\ \E idx \in todo, f \in (0..7), g \in 0..1, highlighted \in BOOLEAN :
       LET r == refresh_capture(Start(xconn), captures[idx], f) IN
       /\ g = 1 => r.ok
       /\ highlighted => (r.ok /\ g = 0)
       /\ Inject(IF f # 0 THEN f ELSE g)
       /\ xconn' = r.conn
       /\ captures' = [captures EXCEPT ![idx] = r.cap]
       /\ last' = Call("refresh_capture", r.ok, captures[idx].info.frame_window,
                       idx, captures[idx])
       /\ refreshCalls' = [refreshCalls EXCEPT ![idx] = @ + 1]
       /\ IF g = 1
          THEN pc' = "aborted" /\ UNCHANGED <<todo, damaged_windows, frame>>
          ELSE LET drawn == IF r.ok THEN frame.painted \cup redraw_thumbnail(idx, highlighted)
                                    ELSE frame.painted IN
               IF todo = {idx}
               THEN /\ damaged_windows' = {}
                    /\ frame' = [frame EXCEPT !.painted = drawn \cup {render_desktop_bar},
                                              !.needs_present = TRUE]
                    /\ pc' = (IF placeholder_indices # {} THEN "upgrade" ELSE "frame_end")
                    /\ todo' = placeholder_indices
               ELSE /\ damaged_windows' = damaged_windows
                    /\ frame' = [frame EXCEPT !.painted = drawn]
                    /\ pc' = "refresh"
                    /\ todo' = todo \ {idx}
  /\ UNCHANGED <<paint, desk, probe, ui, placeholders, exists, setup, negotiated, winGeom, viewable, windowIdx, placeholder_indices, skipped_captures,
                 upgraded, notified, omitted, iter, changes>>

\* body of `for &idx in &placeholder_indices`, and after the last one the
\* removal of the upgraded indices; g = 1: redraw_thumbnail returned Err;
\* highlighted: last_hovered == Some(idx)
UpgradeStep ==
  /\ pc = "upgrade"
  /\ \E idx \in todo, f \in (0..9), g \in 0..1, highlighted \in BOOLEAN :
       LET r == try_upgrade_placeholder(Start(xconn), captures[idx], f)
           up == IF r.ok THEN upgraded \cup {idx} ELSE upgraded IN
       /\ g = 1 => r.ok
       /\ highlighted => (r.ok /\ g = 0)
       /\ Inject(IF f # 0 THEN f ELSE g)
       /\ xconn' = r.conn
       /\ captures' = [captures EXCEPT ![idx] = r.cap]
       /\ last' = Call("try_upgrade_placeholder", r.ok, captures[idx].info.frame_window,
                       idx, captures[idx])
       /\ placeholders' = IF r.ok THEN placeholders \ {idx} ELSE placeholders
       /\ IF g = 1
          THEN /\ pc' = "aborted" /\ upgraded' = up
               /\ UNCHANGED <<todo, placeholder_indices, frame>>
          ELSE LET drawn == IF r.ok THEN frame.painted \cup redraw_thumbnail(idx, highlighted)
                                    ELSE frame.painted IN
               IF todo = {idx}
               THEN /\ placeholder_indices' = remove_upgraded(placeholder_indices, up)
                    /\ frame' = IF up # {}
                                 THEN [frame EXCEPT !.painted = drawn \cup {render_desktop_bar},
                                                    !.needs_present = TRUE]
                                 ELSE [frame EXCEPT !.painted = drawn]
                    /\ upgraded' = {}
                    /\ pc' = "frame_end"
                    /\ todo' = {}
               ELSE /\ placeholder_indices' = placeholder_indices
                    /\ frame' = [frame EXCEPT !.painted = drawn]
                    /\ upgraded' = up
                    /\ pc' = "upgrade"
                    /\ todo' = todo \ {idx}
  /\ UNCHANGED <<paint, desk, probe, ui, exists, setup, negotiated, winGeom, viewable, windowIdx, skipped_captures, damaged_windows, notified,
                 refreshCalls, omitted, iter, changes>>

\* end of one iteration of `loop`
FrameEnd ==
  /\ pc = "frame_end"
  /\ pc' = "wait"
  /\ iter' = iter + 1
  /\ notified' = {}
  /\ refreshCalls' = NoRefreshCalls
  /\ todo' = {}
  /\ xconn' = Start(xconn)
  /\ last' = NoCall
  /\ frame' = NoFrame
  /\ UNCHANGED <<paint, desk, probe, ui, placeholders, exists, setup, negotiated, winGeom, viewable, windowIdx, captures, placeholder_indices,
                 skipped_captures, damaged_windows, upgraded, omitted,
                 faults, changes>>

\* body of the two release loops at the end of run(); the locals of the event
\* loop are dead from here on
ReleaseStep ==
  /\ pc = "cleanup"
  /\ \E f \in (0..4) :
       LET all == captures \o skipped_captures
           r == release_capture(Start(xconn), all[windowIdx], f) IN
       /\ Inject(f)
       /\ xconn' = r.conn
       /\ last' = Call("release_capture", r.ok, all[windowIdx].info.frame_window,
                       windowIdx, all[windowIdx])
       /\ IF windowIdx < Len(all)
          THEN pc' = "cleanup" /\ windowIdx' = windowIdx + 1
          ELSE pc' = "done" /\ windowIdx' = windowIdx
  /\ damaged_windows' = {}
  /\ notified' = {}
  /\ refreshCalls' = NoRefreshCalls
  /\ frame' = NoFrame
  /\ UNCHANGED <<paint, desk, probe, ui, placeholders, exists, setup, negotiated, winGeom, viewable, captures,
                 placeholder_indices, skipped_captures, todo, upgraded, omitted,
                 iter, changes>>

\* The server resizes a managed window, maps it or unmaps it while the session
\* runs. The client sees a window's state only through NameWindowPixmap, at most
\* once per window and iteration, so changes between two iterations cover the
\* interleavings.
ServerResize ==
  /\ pc = "wait"
  /\ changes < MaxChanges
  /\ \E w \in Windows, g \in {[width |-> d + 1, height |-> d] : d \in 1..MaxDim} :
       /\ exists[w]
       /\ g # winGeom[w]
       /\ winGeom' = [winGeom EXCEPT ![w] = g]
  /\ changes' = changes + 1
  /\ UNCHANGED <<paint, desk, probe, ui, frame, placeholders, exists, setup, negotiated, pc, viewable, xconn, windowIdx, captures, placeholder_indices,
                 skipped_captures, damaged_windows, todo, upgraded, notified,
                 refreshCalls, last, omitted, iter, faults>>

ServerMap ==
  /\ pc = "wait"
  /\ changes < MaxChanges
  /\ \E w \in Windows : exists[w] /\ viewable' = [viewable EXCEPT ![w] = ~@]
  /\ changes' = changes + 1
  /\ UNCHANGED <<paint, desk, probe, ui, frame, placeholders, exists, setup, negotiated, pc, winGeom, xconn, windowIdx, captures, placeholder_indices,
                 skipped_captures, damaged_windows, todo, upgraded, notified,
                 refreshCalls, last, omitted, iter, faults>>

Next ==
  \/ CaptureManaged
  \/ PlaceholderManaged
  \/ CaptureSkipped
  \/ WaitForEventFails
  \/ Drain
  \/ RefreshStep
  \/ UpgradeStep
  \/ FrameEnd
  \/ ReleaseStep
  \/ ServerResize
  \/ ServerMap

Spec == Init /\ [][Next]_vars

NextNew == Negotiate
SpecNew == InitNew /\ [][NextNew]_vars

\* ---- renderer.rs: the requests of one renderer call ----
u16_MAX == 65535
i32_MAX == 2147483647
FIXED_SHIFT == 16
MaxSide == 3
\* u16 widths and heights
Sides == 0..MaxSide \cup {u16_MAX}
\* opacity (f64) in tenths
OpacityUnit == 10

\* 2^n
RECURSIVE Pow2(_)
Pow2(n) == IF n = 0 THEN 1 ELSE 2 * Pow2(n - 1)

\* (d * (1 << FIXED_SHIFT) as f64) as i32 for d = num as f64 / den as f64 with
\* num, den of type u16: the cast truncates, saturates at i32::MAX, and maps
\* NaN (0.0 / 0.0) to 0. The fraction is shifted in two halves to stay within
\* 32 bits.
double_to_fixed_half(num, den) ==
  IF den = 0 THEN (IF num = 0 THEN 0 ELSE i32_MAX) ELSE
  (num * Pow2(FIXED_SHIFT - 1)) \div den
double_to_fixed(num, den) ==
  IF den = 0 THEN (IF num = 0 THEN 0 ELSE i32_MAX) ELSE
  IF num \div den >= Pow2(31 - FIXED_SHIFT) THEN i32_MAX ELSE
  LET half == Pow2(FIXED_SHIFT \div 2)
      t == (num % den) * half IN
  (num \div den) * Pow2(FIXED_SHIFT) + (t \div den) * half + ((t % den) * half) \div den

Transform(m11, m22) ==
  [matrix11 |-> m11, matrix12 |-> 0, matrix13 |-> 0,
   matrix21 |-> 0, matrix22 |-> m22, matrix23 |-> 0,
   matrix31 |-> 0, matrix32 |-> 0, matrix33 |-> double_to_fixed(1, 1)]

\* The source picture as earlier calls left it, the destination, and the
\* requests issued by the call being made.
SrcStates ==
  {[transform |-> t, filter |-> fl] :
     t \in {Transform(double_to_fixed(1, 1), double_to_fixed(1, 1)),
            Transform(double_to_fixed(3, 2), double_to_fixed(1, 2))},
     fl \in {"nearest", "bilinear"}}
RenderConn(src) ==
  [transform |-> src.transform, filter |-> src.filter, painted |-> {}, masks |-> {},
   allocated |-> {}, wire |-> <<>>]

Send(c, name) == [c EXCEPT !.wire = Append(@, name)]
set_picture_transform(c, t) == [Send(c, "SetPictureTransform") EXCEPT !.transform = t]
set_picture_filter(c, fl) == [Send(c, "SetPictureFilter") EXCEPT !.filter = fl]
composite(c, op, mask, x, y, width, height) ==
  [Send(c, "Composite") EXCEPT
     !.painted = @ \cup {[op |-> op, mask |-> mask, transform |-> c.transform,
                          filter |-> c.filter, x |-> x, y |-> y,
                          width |-> width, height |-> height]}]
create_solid_fill(c, id, alpha) ==
  [Send(c, "CreateSolidFill") EXCEPT !.masks = @ \cup {id}]
render_free_picture(c, id) == [Send(c, "FreePicture") EXCEPT !.masks = @ \ {id}]

RRes(ok, c) == [ok |-> ok, conn |-> c]

\* XConnection::render_thumbnail; f: the request that returns Err
render_thumbnail_call_no_guard(c, src_width, src_height, layout, f) ==
  LET transform == Transform(double_to_fixed(src_width, layout.width),
                             double_to_fixed(src_height, layout.height)) IN
  IF f = 1 THEN RRes(FALSE, c) ELSE
  LET c1 == set_picture_transform(c, transform) IN
  IF f = 2 THEN RRes(FALSE, c1) ELSE
  LET c2 == set_picture_filter(c1, "bilinear") IN
  IF f = 3 THEN RRes(FALSE, c2) ELSE
  RRes(TRUE, composite(c2, "SRC", 0, layout.x, layout.y, layout.width, layout.height))
render_thumbnail_call(c, src_width, src_height, layout, f) ==
  IF layout.width = 0 \/ layout.height = 0 THEN RRes(TRUE, c) ELSE
  LET transform == Transform(double_to_fixed(src_width, layout.width),
                             double_to_fixed(src_height, layout.height)) IN
  IF f = 1 THEN RRes(FALSE, c) ELSE
  LET c1 == set_picture_transform(c, transform) IN
  IF f = 2 THEN RRes(FALSE, c1) ELSE
  LET c2 == set_picture_filter(c1, "bilinear") IN
  IF f = 3 THEN RRes(FALSE, c2) ELSE
  RRes(TRUE, composite(c2, "SRC", 0, layout.x, layout.y, layout.width, layout.height))

\* XConnection::render_thumbnail_animated, on an AnimatedLayout
render_thumbnail_animated(c, src_width, src_height, layout, f) ==
  IF layout.width = 0 \/ layout.height = 0 THEN RRes(TRUE, c) ELSE
  LET transform == Transform(double_to_fixed(src_width, layout.width),
                             double_to_fixed(src_height, layout.height)) IN
  IF f = 1 THEN RRes(FALSE, c) ELSE
  LET c1 == set_picture_transform(c, transform) IN
  IF f = 2 THEN RRes(FALSE, c1) ELSE
  LET c2 == set_picture_filter(c1, "bilinear") IN
  IF f = 3 THEN RRes(FALSE, c2) ELSE
  RRes(TRUE, composite(c2, "SRC", 0, layout.x, layout.y, layout.width, layout.height))

\* (opacity.clamp(0.0, 1.0) * 65535.0) as u16, opacity in tenths
Alpha(opacity) ==
  LET clamped == IF opacity < 0 THEN 0
                 ELSE IF opacity > OpacityUnit THEN OpacityUnit ELSE opacity IN
  (clamped * u16_MAX) \div OpacityUnit

\* XConnection::render_window_with_opacity
render_window_with_opacity(c, x, y, width, height, opacity, f) ==
  IF width = 0 \/ height = 0 \/ opacity <= 0 THEN RRes(TRUE, c) ELSE
  LET transform == Transform(double_to_fixed(1, 1), double_to_fixed(1, 1)) IN
  IF f = 1 THEN RRes(FALSE, c) ELSE
  LET c1 == set_picture_transform(c, transform) IN
  IF f = 2 THEN RRes(FALSE, c1) ELSE
  LET c2 == set_picture_filter(c1, "nearest") IN
  IF f = 3 THEN RRes(FALSE, c2) ELSE
  LET mask_picture == 1
      c3 == [c2 EXCEPT !.allocated = @ \cup {mask_picture}] IN
  IF f = 4 THEN RRes(FALSE, c3) ELSE
  LET c4 == create_solid_fill(c3, mask_picture, Alpha(opacity)) IN
  IF f = 5 THEN RRes(FALSE, c4) ELSE
  LET c5 == composite(c4, "OVER", mask_picture, x, y, width, height) IN
  IF f = 6 THEN RRes(FALSE, c5) ELSE
  RRes(TRUE, render_free_picture(c5, mask_picture))

\* XConnection::clear_overview
clear_overview(c, bg_picture, f) ==
  IF bg_picture
  THEN IF f # 0 THEN RRes(FALSE, c)
       ELSE RRes(TRUE, composite(c, "SRC", 0, 0, 0, Canvas.width, Canvas.height))
  ELSE IF f = 1 THEN RRes(FALSE, c) ELSE
       LET c1 == Send(c, "ChangeGC") IN
       IF f = 2 THEN RRes(FALSE, c1) ELSE
       RRes(TRUE, [Send(c1, "PolyFillRectangle") EXCEPT
                     !.painted = @ \cup {[op |-> "fill", mask |-> 0,
                                          transform |-> c.transform, filter |-> c.filter,
                                          x |-> 0, y |-> 0,
                                          width |-> Canvas.width, height |-> Canvas.height]}])

\* XConnection::present_overview
present_overview_blit_first(c, f) ==
  IF f = 1 THEN RRes(FALSE, c) ELSE
  LET c1 == Send(c, "CopyArea") IN
  IF f = 2 THEN RRes(FALSE, c1) ELSE
  LET c2 == Send(c1, "ConfigureWindow(ABOVE)") IN
  IF f = 3 THEN RRes(FALSE, c2) ELSE
  RRes(TRUE, Send(c2, "flush"))
present_overview(c, f) ==
  IF f = 1 THEN RRes(FALSE, c) ELSE
  LET c1 == Send(c, "ConfigureWindow(ABOVE)") IN
  IF f = 2 THEN RRes(FALSE, c1) ELSE
  LET c2 == Send(c1, "CopyArea") IN
  IF f = 3 THEN RRes(FALSE, c2) ELSE
  RRes(TRUE, Send(c2, "flush"))

\* ---- main.rs: the renderer calls of one frame of run() ----
RECURSIVE Times(_, _)
Times(calls, n) == IF n = 0 THEN <<>> ELSE calls \o Times(calls, n - 1)

\* fn render_all_thumbnails, n layouts of which `excluded` (0 or 1) is skipped
render_all_thumbnails(n, excluded) ==
  Times(<<"render_thumbnail", "draw_thumbnail_border">>, n - excluded)
\* the skipped windows, faded
FadeSkipped(k) == Times(<<"render_window_with_opacity">>, k)
AnimateThumbnails(n) ==
  Times(<<"render_thumbnail_animated", "draw_thumbnail_border_animated">>, n)

\* n: layouts; k: skipped captures; excluded: 1 if a window is being dragged;
\* complete: anim.is_complete()
FrameCalls(kind, n, k, excluded, complete) ==
  CASE kind = "first" ->
         <<"clear_overview", "render_desktop_bar">> \o FadeSkipped(k)
           \o AnimateThumbnails(n) \o <<"present_overview">>
    [] kind = "entrance" ->
         <<"clear_overview", "render_desktop_bar">> \o FadeSkipped(k)
           \o AnimateThumbnails(n) \o <<"present_overview">>
    [] kind = "static" ->
         <<"render_desktop_bar">> \o render_all_thumbnails(n, 0) \o <<"present_overview">>
    [] kind = "redraw" ->
         <<"clear_overview", "render_desktop_bar">> \o render_all_thumbnails(n, excluded)
           \o <<"present_overview">>
    [] kind = "drag" ->
         <<"clear_overview", "render_desktop_bar">> \o render_all_thumbnails(n, excluded)
           \o <<"render_dragged_window", "present_overview">>
    [] kind = "grid_transition" ->
         <<"clear_overview", "render_desktop_bar">> \o Times(<<"render_thumbnail">>, n)
           \o (IF complete
               THEN <<"clear_overview", "render_desktop_bar">> \o render_all_thumbnails(n, 0)
               ELSE <<>>)
           \o <<"present_overview">>
    [] kind = "exit_desktop" ->
         <<"clear_overview", "render_desktop_preview_animated", "present_overview">>
    [] kind = "exit" ->
         <<"clear_overview">> \o FadeSkipped(k)
           \o Times(<<"render_thumbnail_animated">>, n) \o <<"present_overview">>

\* ---- the renderer, one call or one frame at a time ----
LayoutOf(width, height) ==
  Rectangle(ThumbnailLayout(1).x, ThumbnailLayout(1).y, width, height)

\* run() has not started; every window is mapped
InitCall ==
  /\ setup = GoodSetup
  /\ negotiated = XConnection_new(GoodSetup, "Reply")
  /\ InitRun
  /\ \A w \in AllWindows : viewable[w] /\ exists[w]

InitPaint ==
  /\ pc = "paint"
  /\ InitCall
  /\ InitIdle

RenderThumbnail ==
  /\ pc = "paint"
  /\ \E src \in SrcStates, sw \in Sides, sh \in Sides, w \in Sides, h \in Sides,
        f \in (0..3) :
       LET r == render_thumbnail_call(RenderConn(src), sw, sh, LayoutOf(w, h), f) IN
       /\ r.ok = (f = 0)
       /\ paint' = [op |-> "render_thumbnail", src |-> src, src_width |-> sw,
                    src_height |-> sh, layout |-> LayoutOf(w, h), ok |-> r.ok,
                    conn |-> r.conn]
  /\ pc' = "painted"
  /\ UNCHANGED <<idleVars, desk, probe, ui>>

RenderThumbnailAnimated ==
  /\ pc = "paint"
  /\ \E src \in SrcStates, sw \in Sides, sh \in Sides, w \in Sides, h \in Sides,
        f \in (0..3) :
       LET r == render_thumbnail_animated(RenderConn(src), sw, sh, LayoutOf(w, h), f) IN
       /\ r.ok = (f = 0)
       /\ paint' = [op |-> "render_thumbnail_animated", src |-> src, src_width |-> sw,
                    src_height |-> sh, layout |-> LayoutOf(w, h), ok |-> r.ok,
                    conn |-> r.conn]
  /\ pc' = "painted"
  /\ UNCHANGED <<idleVars, desk, probe, ui>>

RenderWindowWithOpacity ==
  /\ pc = "paint"
  /\ \E src \in SrcStates, w \in Sides, h \in Sides, opacity \in {-5, 0, 5, 10, 15},
        f \in (0..6) :
       LET r == render_window_with_opacity(RenderConn(src), 0, 0, w, h, opacity, f) IN
       /\ r.ok = (f = 0)
       /\ paint' = [op |-> "render_window_with_opacity", src |-> src,
                    layout |-> Rectangle(0, 0, w, h), opacity |-> opacity, ok |-> r.ok,
                    conn |-> r.conn]
  /\ pc' = "painted"
  /\ UNCHANGED <<idleVars, desk, probe, ui>>

ClearOverview ==
  /\ pc = "paint"
  /\ \E src \in SrcStates, bg_picture \in BOOLEAN, f \in (0..2) :
       LET r == clear_overview(RenderConn(src), bg_picture, f) IN
       /\ r.ok = (f = 0)
       /\ paint' = [op |-> "clear_overview", src |-> src, bg_picture |-> bg_picture,
                    ok |-> r.ok, conn |-> r.conn]
  /\ pc' = "painted"
  /\ UNCHANGED <<idleVars, desk, probe, ui>>

PresentOverview ==
  /\ pc = "paint"
  /\ \E src \in SrcStates, f \in (0..3) :
       LET r == present_overview(RenderConn(src), f) IN
       /\ r.ok = (f = 0)
       /\ paint' = [op |-> "present_overview", src |-> src, ok |-> r.ok, conn |-> r.conn]
  /\ pc' = "painted"
  /\ UNCHANGED <<idleVars, desk, probe, ui>>

PaintFrame ==
  /\ pc = "paint"
  /\ \E kind \in {"first", "entrance", "static", "redraw", "drag", "grid_transition",
                  "exit_desktop", "exit"},
        n \in 1..NumWindows, k \in 0..NumSkipped, excluded \in 0..1,
        complete \in BOOLEAN :
       paint' = [op |-> "frame", kind |-> kind, layouts |-> n, excluded |-> excluded,
                 calls |-> FrameCalls(kind, n, k, excluded, complete)]
  /\ pc' = "painted"
  /\ UNCHANGED <<idleVars, desk, probe, ui>>

NextPaint ==
  \/ RenderThumbnail
  \/ RenderThumbnailAnimated
  \/ RenderWindowWithOpacity
  \/ ClearOverview
  \/ PresentOverview
  \/ PaintFrame
SpecPaint == InitPaint /\ [][NextPaint]_vars

\* ---- desktop/state.rs, desktop/manager.rs ----
MaxDesktops == 3
NumDeskWindows == 2
DeskWindows == 1..NumDeskWindows

\* the orders in which a HashMap with the keys S can be iterated
RECURSIVE Orders(_)
Orders(S) ==
  IF S = {} THEN {<<>>}
  ELSE UNION {{<<x>> \o o : o \in Orders(S \ {x})} : x \in S}

\* DesktopState: every window is assigned to a desktop and none is hidden by
\* its application; a desktop has no stacking list or one of windows
\* assigned to it.
Stackings(n, assignment) ==
  LET lists(ws) == UNION {Orders(T) : T \in SUBSET ws} IN
  UNION {{st \in [K -> lists(DeskWindows)] :
            \A k \in K : st[k] \in lists({w \in DOMAIN assignment : assignment[w] = k})} :
         K \in SUBSET (0..(n - 1))}
DesktopStates ==
  UNION {UNION {{[current |-> c, desktops |-> n, windows |-> a, app_hidden |-> {},
                   stacking |-> st] :
                   c \in 0..(n - 1), st \in Stackings(n, a)} :
                a \in [DeskWindows -> 0..(n - 1)]} :
         n \in 1..MaxDesktops}

DRes(ok, state) == [ok |-> ok, state |-> state]
u32_min(a, b) == IF a <= b THEN a ELSE b

\* `for (desk, order) in old_stacking { state.stacking.insert(new_key, order) }`
\* with the entries visited in the order `order`
RECURSIVE InsertAll(_, _, _, _)
InsertAll(acc, old_stacking, order, new_key) ==
  IF order = <<>> THEN acc
  ELSE LET old_idx == Head(order) IN
       IF old_idx \in DOMAIN old_stacking /\ old_idx \in DOMAIN new_key
       THEN InsertAll(Put(acc, new_key[old_idx], old_stacking[old_idx]), old_stacking,
                      Tail(order), new_key)
       ELSE InsertAll(acc, old_stacking, Tail(order), new_key)


\* delete_desktop; order: iteration order of the stacking HashMap;
\* f = 1: sync_to_x returns Err; f = 2: save returns Err
delete_desktop(state, desktop_to_delete, order, f) ==
  IF state.desktops <= 1 THEN DRes(FALSE, state) ELSE
  IF desktop_to_delete >= state.desktops THEN DRes(FALSE, state) ELSE
  LET target_desktop == IF desktop_to_delete = 0 THEN 0 ELSE desktop_to_delete - 1
      moved == [w \in DOMAIN state.windows |->
                  IF state.windows[w] = desktop_to_delete THEN target_desktop
                  ELSE state.windows[w]]
      shifted == [w \in DOMAIN moved |->
                    IF moved[w] > desktop_to_delete THEN moved[w] - 1 ELSE moved[w]]
      merged == IF desktop_to_delete \in DOMAIN state.stacking
                THEN LET rest == Remove(state.stacking, desktop_to_delete)
                         target_stacking == IF target_desktop \in DOMAIN rest
                                            THEN rest[target_desktop] ELSE <<>> IN
                     Put(rest, target_desktop,
                         target_stacking \o state.stacking[desktop_to_delete])
                ELSE state.stacking
      new_key == [old_idx \in DOMAIN merged |->
                    IF old_idx > desktop_to_delete THEN old_idx - 1 ELSE old_idx]
      desktops == state.desktops - 1
      current == IF state.current = desktop_to_delete
                 THEN u32_min(target_desktop, desktops - 1)
                 ELSE IF state.current > desktop_to_delete THEN state.current - 1
                 ELSE state.current IN
  DRes(f = 0, [current |-> current, desktops |-> desktops, windows |-> shifted,
               app_hidden |-> state.app_hidden,
               stacking |-> InsertAll(<<>>, merged, order, new_key)])

\* the index_map of reorder_desktop
index_map_swap(desktops, from_desktop, to_position) ==
  [i \in 0..(desktops - 1) |->
     IF i = from_desktop THEN u32_min(to_position, desktops - 1)
     ELSE IF i = u32_min(to_position, desktops - 1) THEN from_desktop
     ELSE i]
index_map(desktops, from_desktop, to_position) ==
  IF from_desktop < to_position
  THEN [i \in 0..(desktops - 1) |->
          IF i = from_desktop THEN to_position - 1
          ELSE IF i > from_desktop /\ i < to_position THEN i - 1
          ELSE i]
  ELSE [i \in 0..(desktops - 1) |->
          IF i = from_desktop THEN to_position
          ELSE IF i >= to_position /\ i < from_desktop THEN i + 1
          ELSE i]

reorder_desktop(state, from_desktop, to, order, f) ==
  IF from_desktop >= state.desktops THEN DRes(FALSE, state) ELSE
  LET to_position == u32_min(to, state.desktops) IN
  IF from_desktop = to_position \/ from_desktop + 1 = to_position THEN DRes(TRUE, state) ELSE
  LET map == index_map(state.desktops, from_desktop, to_position)
      assigned == [w \in DOMAIN state.windows |->
                     IF state.windows[w] \in DOMAIN map THEN map[state.windows[w]]
                     ELSE state.windows[w]]
      current == IF state.current \in DOMAIN map THEN map[state.current]
                 ELSE state.current IN
  DRes(f = 0, [current |-> current, desktops |-> state.desktops, windows |-> assigned,
               app_hidden |-> state.app_hidden,
               stacking |-> InsertAll(<<>>, state.stacking, order, map)])

InitDesk ==
  /\ pc = "desk"
  /\ InitCall
  /\ paint = Idle /\ probe = Idle /\ ui = Idle
  /\ \E st \in DesktopStates : desk = [op |-> "none", state |-> st]

DeleteDesktop ==
  /\ pc = "desk"
  /\ \E d \in 0..MaxDesktops, order \in Orders((0..(desk.state.desktops - 1)) \cup DOMAIN desk.state.stacking),
        f \in (0..2) :
       LET r == delete_desktop(desk.state, d, order, f) IN
       /\ f # 0 => (desk.state.desktops > 1 /\ d < desk.state.desktops)
       /\ desk' = [op |-> "delete_desktop", before |-> desk.state, from |-> d, to |-> d,
                   ok |-> r.ok, state |-> r.state]
  /\ pc' = "desk_done"
  /\ UNCHANGED <<idleVars, paint, probe, ui>>

ReorderDesktop ==
  /\ pc = "desk"
  /\ \E from \in 0..MaxDesktops, to \in 0..(MaxDesktops + 1),
        order \in Orders((0..(desk.state.desktops - 1)) \cup DOMAIN desk.state.stacking), f \in (0..2) :
       LET r == reorder_desktop(desk.state, from, to, order, f) IN
       /\ f # 0 => /\ from < desk.state.desktops
                   /\ from # u32_min(to, desk.state.desktops)
                   /\ from + 1 # u32_min(to, desk.state.desktops)
       /\ desk' = [op |-> "reorder_desktop", before |-> desk.state, from |-> from,
                   to |-> to, ok |-> r.ok, state |-> r.state]
  /\ pc' = "desk_done"
  /\ UNCHANGED <<idleVars, paint, probe, ui>>

NextDesk ==
  \/ DeleteDesktop
  \/ ReorderDesktop
SpecDesk == InitDesk /\ [][NextDesk]_vars

\* ---- desktop/state.rs, desktop/manager.rs: the calls in sequence ----

MaxOps == 2

\* DesktopState::is_visible_on; a window the state does not know is visible
is_visible_on(state, window_id, desktop) ==
  /\ window_id \notin state.app_hidden
  /\ window_id \in DOMAIN state.windows => state.windows[window_id] = desktop

\* DesktopState::get_window_desktop, for the state it leaves
get_window_desktop(state, window_id, current_desktop) ==
  IF window_id \in DOMAIN state.windows THEN state
  ELSE [state EXCEPT !.windows = Put(@, window_id, current_desktop)]

\* save_stacking_order once get_stacking_order has returned the children of
\* the root, bottom to top
save_stacking_order(state, x_order, desktop) ==
  [state EXCEPT !.stacking =
     Put(@, desktop, SelectSeq(x_order, LAMBDA id : is_visible_on(state, id, desktop)))]

\* move_window; f = 1: get_stacking_order returns Err; f = 2: save returns Err
move_window_assign_only(state, window_id, desktop, x_order, f) ==
  IF desktop >= state.desktops THEN DRes(FALSE, state) ELSE
  LET order == IF desktop \in DOMAIN state.stacking THEN state.stacking[desktop] ELSE <<>> IN
  DRes(f # 2, [state EXCEPT !.windows = Put(@, window_id, desktop),
                            !.app_hidden = @ \ {window_id},
                            !.stacking = Put(@, desktop,
                                             Append(SelectSeq(order, LAMBDA id : id # window_id),
                                                    window_id))])
move_window(state, window_id, desktop, x_order, f) ==
  IF desktop >= state.desktops THEN DRes(FALSE, state) ELSE
  LET known == window_id \in DOMAIN state.windows
      current_desktop == state.current
      is_source_current == known /\ state.windows[window_id] = current_desktop
      is_dest_current == desktop = current_desktop IN
  IF (is_source_current \/ is_dest_current) /\ f = 1 THEN DRes(FALSE, state) ELSE
  LET saved == IF is_source_current \/ is_dest_current
               THEN save_stacking_order(state, x_order, current_desktop) ELSE state
      \* remove_from_stacking(window_id, old_desk)
      removed == IF known /\ state.windows[window_id] \in DOMAIN saved.stacking
                 THEN [saved.stacking EXCEPT ![state.windows[window_id]] =
                         SelectSeq(@, LAMBDA id : id # window_id)]
                 ELSE saved.stacking
      \* add_to_stacking(window_id, desktop)
      order == IF desktop \in DOMAIN removed THEN removed[desktop] ELSE <<>>
      added == Put(removed, desktop,
                   Append(SelectSeq(order, LAMBDA id : id # window_id), window_id)) IN
  DRes(f # 2, [saved EXCEPT !.windows = Put(@, window_id, desktop),
                            !.app_hidden = @ \ {window_id},
                            !.stacking = added])

\* switch_to_desktop; infos: the frames of the `windows` slice;
\* mapped: those with is_mapped. f = 1: get_stacking_order of
\* save_stacking_order returns Err; f = 2: a map_window, an unmap_window or
\* the flush of update_window_visibility does; f = 3: get_stacking_order or a
\* configure_window of restore_stacking_order does; f = 4: sync_to_x does;
\* f = 5: save does
switch_to_desktop(state, infos, mapped, target, x_order, f) ==
  LET \* detect_new_windows
      detected ==
        [state EXCEPT
           !.windows = [w \in DOMAIN state.windows \cup infos |->
                          IF w \in DOMAIN state.windows THEN state.windows[w]
                          ELSE state.current],
           !.app_hidden = state.app_hidden
                          \cup {w \in infos \ DOMAIN state.windows : w \notin mapped}]
      \* cleanup_dead_windows
      cleaned ==
        [detected EXCEPT
           !.windows = [w \in DOMAIN detected.windows \cap infos |-> detected.windows[w]],
           !.app_hidden = detected.app_hidden \cap infos,
           !.stacking = [k \in DOMAIN detected.stacking |->
                           SelectSeq(detected.stacking[k], LAMBDA id : id \in infos)]]
      saved == save_stacking_order(cleaned, x_order, cleaned.current)
      switched == [saved EXCEPT !.current = target] IN
  IF f = 1 THEN DRes(FALSE, cleaned)
  ELSE IF f \in {2, 3} THEN DRes(FALSE, saved)
  ELSE DRes(f = 0, switched)

\* set_desktop_count; f in 1..5: the fail points of the switch_to_desktop it
\* calls; f = 6: its own sync_to_x returns Err; f = 7: its own save does
set_desktop_count(state, infos, mapped, count, x_order, f) ==
  IF count = 0 THEN DRes(FALSE, state) ELSE
  LET relocated == IF count < state.desktops
                   THEN [state EXCEPT !.windows = [w \in DOMAIN @ |->
                                                     IF @[w] >= count THEN count - 1 ELSE @[w]]]
                   ELSE state
      counted == [relocated EXCEPT !.desktops = count]
      r == switch_to_desktop(counted, infos, mapped, count - 1, x_order, f) IN
  IF counted.current >= count
  THEN IF f \in 1..5 THEN DRes(FALSE, r.state)
       ELSE DRes(f = 0, switch_to_desktop(counted, infos, mapped, count - 1, x_order, 0).state)
  ELSE DRes(f = 0, counted)

\* a start state with two desktops, where the application of window 1 may
\* have hidden it, and then at most MaxOps calls, each on the state the last
\* left
InitOps ==
  /\ pc = "ops"
  /\ InitCall
  /\ paint = Idle /\ probe = Idle /\ ui = Idle
  /\ \E st \in DesktopStates, hidden \in {{}, {1}} :
       /\ st.desktops = 2
       /\ desk = [op |-> "none", state |-> [st EXCEPT !.app_hidden = hidden], steps |-> 0]

\* what a call leaves in desk
Called(op, r) == [op |-> op, ok |-> r.ok, state |-> r.state, steps |-> desk.steps + 1]

GetWindowDesktop ==
  /\ pc = "ops" /\ desk.steps < MaxOps
  /\ \E window_id \in DeskWindows :
       desk' = Called("get_window_desktop",
                      DRes(TRUE, get_window_desktop(desk.state, window_id, desk.state.current)))
  /\ UNCHANGED <<pc, idleVars, paint, probe, ui>>

MoveWindow ==
  /\ pc = "ops" /\ desk.steps < MaxOps
  /\ \E window_id \in DeskWindows, desktop \in 0..MaxDesktops,
        x_order \in Orders(DeskWindows), f \in 0..2 :
       /\ f # 0 => desktop < desk.state.desktops
       /\ f = 1 => \/ desktop = desk.state.current
                   \/ /\ window_id \in DOMAIN desk.state.windows
                      /\ desk.state.windows[window_id] = desk.state.current
       /\ desk' = [before |-> desk.state, window |-> window_id, to |-> desktop]
                   @@ Called("move_window",
                             move_window(desk.state, window_id, desktop, x_order, f))
  /\ UNCHANGED <<pc, idleVars, paint, probe, ui>>

\* is_mapped is read of the windows the state does not know yet
SwitchToDesktop ==
  /\ pc = "ops" /\ desk.steps < MaxOps
  /\ \E infos \in SUBSET DeskWindows, target \in 0..(desk.state.desktops - 1), f \in 0..5 :
       \E mapped \in SUBSET (infos \ DOMAIN desk.state.windows), x_order \in Orders(infos) :
         /\ f = 3 => target \in DOMAIN desk.state.stacking \cup {desk.state.current}
         /\ desk' = Called("switch_to_desktop",
                           switch_to_desktop(desk.state, infos, mapped, target, x_order, f))
  /\ UNCHANGED <<pc, idleVars, paint, probe, ui>>

\* the `windows` slice is read by the switch_to_desktop made when the
\* current desktop is removed
SetDesktopCount ==
  /\ pc = "ops" /\ desk.steps < MaxOps
  /\ \E infos \in SUBSET DeskWindows, count \in 0..MaxDesktops, f \in 0..7 :
       \E mapped \in SUBSET (infos \ DOMAIN desk.state.windows), x_order \in Orders(infos) :
         /\ desk.state.current < count => infos = {}
         /\ f # 0 => count # 0
         /\ f \in 1..5 => desk.state.current >= count
         /\ f = 3 => count - 1 \in DOMAIN desk.state.stacking \cup {desk.state.current}
         /\ desk' = Called("set_desktop_count",
                           set_desktop_count(desk.state, infos, mapped, count, x_order, f))
  /\ UNCHANGED <<pc, idleVars, paint, probe, ui>>

DeleteDesktopCall ==
  /\ pc = "ops" /\ desk.steps < MaxOps
  /\ \E d \in 0..MaxDesktops, f \in 0..2,
        order \in Orders((0..(desk.state.desktops - 1)) \cup DOMAIN desk.state.stacking) :
       /\ f # 0 => (desk.state.desktops > 1 /\ d < desk.state.desktops)
       /\ desk' = Called("delete_desktop", delete_desktop(desk.state, d, order, f))
  /\ UNCHANGED <<pc, idleVars, paint, probe, ui>>

ReorderDesktopCall ==
  /\ pc = "ops" /\ desk.steps < MaxOps
  /\ \E from \in 0..MaxDesktops, to \in 0..(MaxDesktops + 1), f \in 0..2,
        order \in Orders((0..(desk.state.desktops - 1)) \cup DOMAIN desk.state.stacking) :
       /\ f # 0 => /\ from < desk.state.desktops
                   /\ from # u32_min(to, desk.state.desktops)
                   /\ from + 1 # u32_min(to, desk.state.desktops)
       /\ desk' = Called("reorder_desktop",
                         reorder_desktop(desk.state, from, to, order, f))
  /\ UNCHANGED <<pc, idleVars, paint, probe, ui>>

NextOps ==
  \/ GetWindowDesktop
  \/ MoveWindow
  \/ SwitchToDesktop
  \/ SetDesktopCount
  \/ DeleteDesktopCall
  \/ ReorderDesktopCall
SpecOps == InitOps /\ [][NextOps]_vars

\* ---- desktop_bar.rs: the bar's layout and its hit test ----

PREVIEW_PADDING == 15
PREVIEW_HEIGHT == 80
\* (PREVIEW_HEIGHT as f64 * 16.0 / 9.0) as u16: the cast truncates
PREVIEW_WIDTH == (PREVIEW_HEIGHT * 16) \div 9
PLUS_BUTTON_SIZE == 40
PLUS_BUTTON_MARGIN == 20
DELETE_BUTTON_SIZE == 16
DELETE_BUTTON_MARGIN == 4

MaxBarDesktops == 3
\* a screen too narrow for MaxBarDesktops previews next to the plus button, and a
\* screen that has room for all of them
NarrowScreen == 360
WideScreen == 1920

\* `v as i16` of a u16: the low 16 bits, read as two's complement
as_i16(v) == IF v % 65536 >= 32768 THEN (v % 65536) - 65536 ELSE v % 65536
\* u16::saturating_sub
saturating_sub(a, b) == IF a >= b THEN a - b ELSE 0

\* DesktopBar::new; preview_layouts[i + 1] is the preview of desktop i
DesktopBar_new(num_desktops, current_desktop, screen_width) ==
  LET bar_height == BAR_HEIGHT
      preview_height == PREVIEW_HEIGHT
      preview_width == PREVIEW_WIDTH
      total_previews_width == (num_desktops * preview_width)
                              + (saturating_sub(num_desktops, 1) * PREVIEW_PADDING)
      start_x == saturating_sub(screen_width, total_previews_width) \div 2
      preview_y == saturating_sub(bar_height, preview_height) \div 2 IN
  [num_desktops |-> num_desktops,
   current_desktop |-> current_desktop,
   preview_layouts |->
     [k \in 1..num_desktops |->
        [desktop_index |-> k - 1,
         x |-> as_i16(start_x) + as_i16((k - 1) * (preview_width + PREVIEW_PADDING)),
         y |-> as_i16(preview_y),
         width |-> preview_width,
         height |-> preview_height,
         is_current |-> (k - 1 = current_desktop),
         delete_button_x |-> as_i16(preview_width - DELETE_BUTTON_SIZE - DELETE_BUTTON_MARGIN),
         delete_button_y |-> as_i16(DELETE_BUTTON_MARGIN),
         delete_button_size |-> DELETE_BUTTON_SIZE]],
   plus_button |-> [x |-> as_i16(screen_width - PLUS_BUTTON_MARGIN - PLUS_BUTTON_SIZE),
                    y |-> as_i16((bar_height - PLUS_BUTTON_SIZE) \div 2),
                    size |-> PLUS_BUTTON_SIZE],
   bar_height |-> bar_height]


\* DesktopBarHit
HitNone == [kind |-> "None", index |-> 0]
HitDesktop(i) == [kind |-> "Desktop", index |-> i]
HitDeleteButton(i) == [kind |-> "DeleteButton", index |-> i]
HitPlusButton == [kind |-> "PlusButton", index |-> 0]

contains_point(bar, x, y) == y >= 0 /\ y < as_i16(bar.bar_height)

\* the loop of hit_test over preview_layouts, from the k-th preview on
RECURSIVE hit_test_previews(_, _, _, _)
hit_test_previews(bar, x, y, k) ==
  IF k > Len(bar.preview_layouts) THEN HitNone ELSE
  LET preview == bar.preview_layouts[k] IN
  IF /\ x >= preview.x
     /\ x < preview.x + as_i16(preview.width)
     /\ y >= preview.y
     /\ y < preview.y + as_i16(preview.height)
  THEN LET del_x == preview.x + preview.delete_button_x
           del_y == preview.y + preview.delete_button_y IN
       IF /\ bar.num_desktops > 1
          /\ x >= del_x
          /\ x < del_x + as_i16(preview.delete_button_size)
          /\ y >= del_y
          /\ y < del_y + as_i16(preview.delete_button_size)
       THEN HitDeleteButton(preview.desktop_index)
       ELSE HitDesktop(preview.desktop_index)
  ELSE hit_test_previews(bar, x, y, k + 1)

hit_test_previews_first(bar, x, y) ==
  LET pb == bar.plus_button
      hit == hit_test_previews(bar, x, y, 1) IN
  IF hit # HitNone THEN hit
  ELSE IF x >= pb.x /\ x < pb.x + as_i16(pb.size) /\ y >= pb.y /\ y < pb.y + as_i16(pb.size)
  THEN HitPlusButton
  ELSE HitNone
hit_test(bar, x, y) ==
  LET pb == bar.plus_button IN
  IF x >= pb.x /\ x < pb.x + as_i16(pb.size) /\ y >= pb.y /\ y < pb.y + as_i16(pb.size)
  THEN HitPlusButton
  ELSE hit_test_previews(bar, x, y, 1)

\* the pointer positions tried: one pixel on each side of every edge of every
\* element of the bar, and of the bar itself
Around(lo, size) == {lo - 1, lo, lo + size - 1, lo + size}
EdgeXs(bar) ==
  Around(bar.plus_button.x, bar.plus_button.size)
  \cup UNION {Around(bar.preview_layouts[k].x, bar.preview_layouts[k].width)
              \cup Around(bar.preview_layouts[k].x + bar.preview_layouts[k].delete_button_x,
                          bar.preview_layouts[k].delete_button_size) :
              k \in DOMAIN bar.preview_layouts}
EdgeYs(bar) ==
  Around(0, bar.bar_height)
  \cup Around(bar.plus_button.y, bar.plus_button.size)
  \cup UNION {Around(bar.preview_layouts[k].y, bar.preview_layouts[k].height)
              \cup Around(bar.preview_layouts[k].y + bar.preview_layouts[k].delete_button_y,
                          bar.preview_layouts[k].delete_button_size) :
              k \in DOMAIN bar.preview_layouts}

\* ---- layout.rs: the grid ----

MaxCount == 5
MaxGridSide == 4

\* ceil(sqrt(num / den)) for den > 0: the least c with c * c >= num / den
CeilSqrt(num, den) ==
  CHOOSE c \in 0..(num + 1) :
    /\ c * c * den >= num
    /\ \A b \in 0..(num + 1) : b * b * den >= num => c <= b

GridRes(panicked, saturated, cols, rows) ==
  [panicked |-> panicked, saturated |-> saturated, cols |-> cols, rows |-> rows]

\* optimal_grid. width / height is an f64 division: +inf for height = 0 and
\* width > 0, NaN for 0 / 0. `as usize` turns +inf into usize::MAX and NaN
\* into 0. With cols = usize::MAX the sum count + cols - 1 overflows: a build
\* with overflow checks panics there, one without wraps around and goes on
\* to rows = 1. saturated says that cols is usize::MAX, which no integer
\* of the model can hold; cols is 0 then.
optimal_grid(count, width, height, overflow_checks) ==
  IF count = 0 THEN GridRes(FALSE, FALSE, 1, 1)
  ELSE IF height = 0 /\ width > 0
  THEN IF overflow_checks THEN GridRes(TRUE, FALSE, 0, 0)
       ELSE GridRes(FALSE, TRUE, 0, 1)
  ELSE LET cols_ceil == IF height = 0 THEN 0 ELSE CeilSqrt(count * width, height)
           cols == IF cols_ceil > 1 THEN cols_ceil ELSE 1
           rows_div == (count + cols - 1) \div cols
           rows == IF rows_div > 1 THEN rows_div ELSE 1 IN
       GridRes(FALSE, FALSE, cols, rows)

InitGeom ==
  /\ pc = "probe"
  /\ InitCall
  /\ paint = Idle /\ desk = Idle /\ probe = Idle /\ ui = Idle

HitTest ==
  /\ pc = "probe"
  /\ \E bar \in {DesktopBar_new(n, 0, w) : n \in 1..MaxBarDesktops, w \in {NarrowScreen, WideScreen}} :
       \E x \in EdgeXs(bar), y \in EdgeYs(bar) :
         probe' = [op |-> "hit_test", bar |-> bar, x |-> x, y |-> y,
                   hit |-> hit_test(bar, x, y)]
  /\ pc' = "probed"
  /\ UNCHANGED <<idleVars, paint, desk, ui>>

ContainsPoint ==
  /\ pc = "probe"
  /\ \E bar \in {DesktopBar_new(n, 0, w) : n \in 1..MaxBarDesktops, w \in {NarrowScreen, WideScreen}} :
       \E x \in EdgeXs(bar), y \in EdgeYs(bar) :
         probe' = [op |-> "contains_point", bar |-> bar, x |-> x, y |-> y,
                   contains |-> contains_point(bar, x, y)]
  /\ pc' = "probed"
  /\ UNCHANGED <<idleVars, paint, desk, ui>>

OptimalGrid ==
  /\ pc = "probe"
  /\ \E count \in 0..MaxCount, width \in 0..MaxGridSide, height \in 0..MaxGridSide,
        overflow_checks \in BOOLEAN :
       probe' = [op |-> "optimal_grid", count |-> count, width |-> width,
                 height |-> height, grid |-> optimal_grid(count, width, height, overflow_checks)]
  /\ pc' = "probed"
  /\ UNCHANGED <<idleVars, paint, desk, ui>>

NextGeom ==
  \/ HitTest
  \/ ContainsPoint
  \/ OptimalGrid
SpecGeom == InitGeom /\ [][NextGeom]_vars

\* ---- input.rs, main.rs: the event loop of the overview ----
\* Captures are numbered from 1 and capture i is window i; 0 stands for the
\* None of an Option<usize> and -1 for the None of an Option<u32>. An
\* InputAction is the tuple of its name and its arguments. Every request
\* whose error run() hands on with `?` succeeds.

DRAG_THRESHOLD == 5

\* event_x, event_y of the events tried: in the first cell of the grid, also
\* 5 and 6 below, in the second cell, off every element, on the first
\* preview of the bar, on its delete button, on the second preview and on
\* the plus button
Pointers ==
  {<<60, 180>>, <<60, 185>>, <<60, 186>>, <<180, 180>>, <<400, 300>>, <<850, 60>>,
   <<940, 30>>, <<1000, 60>>, <<1870, 60>>}

\* DragState::update; the coordinates are on the screen, so that the i16
\* differences do not overflow
DragState_update_both_axes(drag, x, y) ==
  LET dx == IF x >= drag.start_x THEN x - drag.start_x ELSE drag.start_x - x
      dy == IF y >= drag.start_y THEN y - drag.start_y ELSE drag.start_y - y
      became_active == ~drag.is_active /\ dx > DRAG_THRESHOLD /\ dy > DRAG_THRESHOLD IN
  [drag |-> [drag EXCEPT !.is_active = @ \/ became_active], became_active |-> became_active]
DragState_update(drag, x, y) ==
  LET dx == IF x >= drag.start_x THEN x - drag.start_x ELSE drag.start_x - x
      dy == IF y >= drag.start_y THEN y - drag.start_y ELSE drag.start_y - y
      became_active == ~drag.is_active /\ (dx > DRAG_THRESHOLD \/ dy > DRAG_THRESHOLD) IN
  [drag |-> [drag EXCEPT !.is_active = @ \/ became_active], became_active |-> became_active]

\* calculate_layout for `count` windows that stand side by side on the
\* screen, in the order of the slice: one row, the k-th window in the k-th
\* cell, window_index k
calculate_layout(count) ==
  [k \in 1..count |->
     [x |-> ThumbnailLayout(k).x, y |-> ThumbnailLayout(k).y,
      width |-> ThumbnailLayout(k).width, height |-> ThumbnailLayout(k).height,
      window_index |-> k]]

\* recalculate_filtered_layout over the captures 1..n
recalculate_filtered_layout(n, removed_windows) ==
  LET filtered_indices == SelectSeq([i \in 1..n |-> i], LAMBDA i : i \notin removed_windows)
      new_layouts == calculate_layout(Len(filtered_indices)) IN
  [new_idx \in DOMAIN new_layouts |->
     [new_layouts[new_idx] EXCEPT !.window_index = filtered_indices[new_idx]]]

\* find_thumbnail_at, from the k-th layout on
RECURSIVE find_thumbnail_at(_, _, _, _)
find_thumbnail_at(layouts, x, y, k) ==
  IF k > Len(layouts) THEN 0
  ELSE LET layout == layouts[k]
           in_x == x >= layout.x /\ x < layout.x + as_i16(layout.width)
           in_y == y >= layout.y /\ y < layout.y + as_i16(layout.height) IN
       IF in_x /\ in_y THEN layout.window_index
       ELSE find_thumbnail_at(layouts, x, y, k + 1)

\* InputHandler::handle_button_press. The match on the bar's hit has no arm
\* for DeleteButton: a left press on a delete button is not among the
\* events tried.
handle_button_press(h, bar, x, y, detail) ==
  IF detail # 1 THEN [h |-> h, action |-> <<"Dismiss">>]
  ELSE IF contains_point(bar, x, y)
  THEN LET hit == hit_test(bar, x, y) IN
       [h |-> h,
        action |-> IF hit.kind = "Desktop" THEN <<"ActivateDesktop", hit.index>>
                   ELSE IF hit.kind = "PlusButton" THEN <<"ClickPlusButton">>
                   ELSE <<"None">>]
  ELSE LET index == find_thumbnail_at(h.layouts, x, y, 1) IN
       IF index # 0
       THEN [h |-> [h EXCEPT !.drag_state =
                      [pending |-> TRUE, window_index |-> index, start_x |-> x,
                       start_y |-> y, is_active |-> FALSE]],
             action |-> <<"None">>]
       ELSE [h |-> h, action |-> <<"Dismiss">>]

\* InputHandler::handle_button_release
handle_button_release(h, bar, x, y) ==
  LET drag == h.drag_state
      taken == [h EXCEPT !.drag_state = [pending |-> FALSE]]
      hit == hit_test(bar, x, y) IN
  IF drag.pending
  THEN IF drag.is_active
       THEN IF hit.kind = "Desktop"
            THEN [h |-> taken, action |-> <<"DropOnDesktop", drag.window_index, hit.index>>]
            ELSE [h |-> taken, action |-> <<"CancelDrag">>]
       ELSE [h |-> taken, action |-> <<"SelectWindow", drag.window_index>>]
  ELSE [h |-> taken, action |-> <<"None">>]

\* InputHandler::handle_key_press
handle_key_press(h, detail) ==
  IF detail = 9 THEN [h |-> h, action |-> <<"Dismiss">>]
  ELSE IF detail = 36
  THEN IF h.hovered_index # 0 THEN [h |-> h, action |-> <<"SelectWindow", h.hovered_index>>]
       ELSE [h |-> h, action |-> <<"None">>]
  ELSE [h |-> h, action |-> <<"None">>]

\* InputHandler::handle_motion
handle_motion(h, bar, x, y) ==
  LET updated == DragState_update(h.drag_state, x, y)
      dragged == [h EXCEPT !.drag_state = updated.drag]
      hit == hit_test(bar, x, y)
      bar_hover == IF hit.kind = "Desktop" THEN hit.index ELSE -1
      new_hover == find_thumbnail_at(h.layouts, x, y, 1) IN
  IF h.drag_state.pending /\ updated.became_active
  THEN [h |-> dragged, action |-> <<"StartDrag", h.drag_state.window_index>>]
  ELSE IF h.drag_state.pending /\ updated.drag.is_active
  THEN [h |-> [dragged EXCEPT !.hovered_desktop = bar_hover], action |-> <<"DragMove", x, y>>]
  ELSE LET moved == IF h.drag_state.pending THEN dragged ELSE h IN
       IF contains_point(bar, x, y)
       THEN IF bar_hover # moved.hovered_desktop
            THEN [h |-> [moved EXCEPT !.hovered_desktop = bar_hover],
                  action |-> <<"HoverDesktop", bar_hover>>]
            ELSE [h |-> moved, action |-> <<"None">>]
       ELSE IF moved.hovered_desktop # -1
       THEN [h |-> [moved EXCEPT !.hovered_desktop = -1], action |-> <<"HoverDesktop", -1>>]
       ELSE IF new_hover # moved.hovered_index
       THEN [h |-> [moved EXCEPT !.hovered_index = new_hover], action |-> <<"Hover", new_hover>>]
       ELSE [h |-> moved, action |-> <<"None">>]

\* restore_window_visibility, for the windows it leaves mapped
restore_window_visibility(state, mapped) ==
  {w \in mapped : is_visible_on(state, w, state.current)}

\* interpolate_layouts at progress 0.0 or 1.0, where ease_out_cubic is the
\* identity
interpolate_layouts(start, end, progress) ==
  [k \in 1..(IF Len(start) <= Len(end) THEN Len(start) ELSE Len(end)) |->
     [x |-> IF progress = 0 THEN start[k].x ELSE end[k].x,
      y |-> IF progress = 0 THEN start[k].y ELSE end[k].y,
      width |-> end[k].width,
      height |-> end[k].height,
      window_index |-> start[k].window_index]]

\* run() when the overview is displayed and the event loop starts, with two
\* desktops of which the first is current and every window assigned to one
\* of them. The windows of the other desktop have been moved off-screen, all
\* windows are mapped, and the grid holds the windows of the current desktop.
\* run()'s `layouts` and the handler's copy are assigned together and are
\* the one field input.layouts.
InitUi ==
  /\ pc = "ui"
  /\ InitCall
  /\ paint = Idle /\ desk = Idle /\ probe = Idle
  /\ \E assignment \in [DeskWindows -> 0..1] :
       LET captured == [i \in 1..NumDeskWindows |-> i]
           stacking_order == SelectSeq(captured, LAMBDA w : assignment[w] = 0)
           state == [current |-> 0, desktops |-> 2, windows |-> assignment,
                     app_hidden |-> {}, stacking |-> (0 :> stacking_order)]
           current_window_ids == {w \in DeskWindows : assignment[w] = 0}
           grid_indices == SelectSeq(captured, LAMBDA i : i \in current_window_ids)
           layouts == [k \in DOMAIN grid_indices |->
                         [calculate_layout(Len(grid_indices))[k]
                            EXCEPT !.window_index = grid_indices[k]]] IN
       ui = [op |-> "session",
             input |-> [layouts |-> layouts, hovered_index |-> 0, hovered_desktop |-> -1,
                        drag_state |-> [pending |-> FALSE]],
             state |-> state,
             grid_indices |-> grid_indices,
             removed_windows |-> {i \in DeskWindows : ~is_visible_on(state, i, 0)},
             drag_animation |-> [pending |-> FALSE],
             last_drag_rect |-> FALSE,
             selected_window |-> 0,
             selected_desktop |-> -1,
             should_exit |-> FALSE,
             x |-> [w \in DeskWindows |-> IF w \in current_window_ids THEN WindowInfo(w).x
                                          ELSE -(WideScreen * 2)],
             offscreen |-> DeskWindows \ current_window_ids,
             mapped |-> DeskWindows,
             event |-> "none",
             far |-> FALSE, starts |-> 0,
             exit |-> <<>>, raised |-> 0]

\* `match action` of the event loop, on the state u that the handler left
dispatch(u, action) ==
  LET found == \E k \in DOMAIN u.input.layouts : u.input.layouts[k].window_index = action[2] IN
  CASE action[1] = "SelectWindow" ->
         [u EXCEPT !.selected_window = action[2], !.should_exit = TRUE]
    [] action[1] = "Dismiss" -> [u EXCEPT !.should_exit = TRUE]
    [] action[1] = "ActivateDesktop" ->
         [u EXCEPT !.state.current = action[2], !.selected_desktop = action[2],
                   !.should_exit = TRUE]
    [] action[1] = "ClickPlusButton" ->
         [u EXCEPT !.state = set_desktop_count(u.state, <<>>, {}, u.state.desktops + 1,
                                               <<>>, 0).state]
    [] action[1] = "StartDrag" -> [u EXCEPT !.last_drag_rect = @ \/ found]
    [] action[1] = "DragMove" ->
         [u EXCEPT !.last_drag_rect =
            @ \/ (u.input.drag_state.pending
                  /\ \E k \in DOMAIN u.input.layouts :
                       u.input.layouts[k].window_index = u.input.drag_state.window_index)]
    [] action[1] = "DropOnDesktop" ->
         [u EXCEPT !.drag_animation =
                     IF u.last_drag_rect /\ action[3] < u.state.desktops
                     THEN [pending |-> TRUE, window_index |-> action[2],
                           desktop_idx |-> action[3]]
                     ELSE @,
                   !.last_drag_rect = FALSE]
    [] action[1] = "CancelDrag" -> [u EXCEPT !.last_drag_rect = FALSE]
    [] OTHER -> u

\* run() after the loop: the last frame of the normal exit animation, or the
\* desktop zoom, then restore_window_visibility and raise_and_focus of the
\* selected capture. The handler and the locals of the loop are dropped;
\* the layouts stay for the properties.
Exited(u) ==
  LET exit_start == u.input.layouts
      exit_end == [k \in DOMAIN u.grid_indices |->
                     [x |-> WindowInfo(u.grid_indices[k]).x, y |-> 0,
                      width |-> WindowInfo(u.grid_indices[k]).width,
                      height |-> WindowInfo(u.grid_indices[k]).height,
                      window_index |-> u.grid_indices[k]]] IN
  [u EXCEPT !.exit = IF u.selected_desktop # -1 THEN <<>>
                     ELSE interpolate_layouts(exit_start, exit_end, 1),
            !.mapped = restore_window_visibility(u.state, u.mapped),
            !.raised = IF u.selected_window <= NumDeskWindows THEN u.selected_window ELSE 0,
            !.input = [layouts |-> u.input.layouts, hovered_index |-> 0,
                       hovered_desktop |-> -1, drag_state |-> [pending |-> FALSE]],
            !.drag_animation = [pending |-> FALSE],
            !.last_drag_rect = FALSE,
            !.far = FALSE,
            !.starts = 0]

\* one event of the loop: the handler's result r dispatched, and the kind of
\* the event kept for the properties; an event that ends the loop is followed
\* by the rest of run(). far: a motion since the
\* last left press on a thumbnail was more than DRAG_THRESHOLD from it on an
\* axis; starts: StartDrag actions since that press.
Handled(kind, x, y, detail, r) ==
  LET drag == ui.input.drag_state
      pressed == /\ kind = "press" /\ detail = 1
                 /\ ~contains_point(DesktopBar_new(ui.state.desktops, ui.state.current,
                                                   WideScreen), x, y)
                 /\ find_thumbnail_at(ui.input.layouts, x, y, 1) # 0
      exceeds == /\ kind = "motion"
                 /\ drag.pending
                 /\ \/ x - drag.start_x > DRAG_THRESHOLD
                    \/ drag.start_x - x > DRAG_THRESHOLD
                    \/ y - drag.start_y > DRAG_THRESHOLD
                    \/ drag.start_y - y > DRAG_THRESHOLD
      far == IF pressed \/ ~drag.pending THEN FALSE ELSE ui.far
      started == IF pressed \/ ~drag.pending THEN 0 ELSE ui.starts
      dispatched ==
        [dispatch([ui EXCEPT !.input = r.h], r.action) EXCEPT
           !.event = kind,
           !.far = far \/ exceeds,
           !.starts = IF r.action[1] = "StartDrag" /\ started < 2 THEN started + 1
                      ELSE started] IN
  IF dispatched.should_exit THEN Exited(dispatched) ELSE dispatched

\* Event::ButtonPress, of the left or the right button. The two points that
\* probe the threshold are moved to, never pressed at; the right button, whose
\* handling reads no coordinate, is pressed at one point.
ButtonPress ==
  /\ pc = "ui" /\ ~ui.should_exit
  /\ \E p \in Pointers \ {<<60, 185>>, <<60, 186>>}, detail \in {1, 3} :
       LET bar == DesktopBar_new(ui.state.desktops, ui.state.current, WideScreen)
           hit == hit_test(bar, p[1], p[2]) IN
       /\ detail = 3 => p = <<400, 300>>
       /\ (detail = 1 /\ contains_point(bar, p[1], p[2])) =>
            /\ hit.kind # "DeleteButton"
            /\ hit.kind = "PlusButton" => ui.state.desktops < MaxDesktops
       /\ ui' = Handled("press", p[1], p[2], detail,
                        handle_button_press(ui.input, bar, p[1], p[2], detail))
  /\ pc' = IF ui'.should_exit THEN "ui_done" ELSE pc
  /\ UNCHANGED <<idleVars, paint, desk, probe>>

\* Event::ButtonRelease
ButtonRelease ==
  /\ pc = "ui" /\ ~ui.should_exit
  /\ \E p \in Pointers :
       ui' = Handled("release", p[1], p[2], 1,
                     handle_button_release(ui.input,
                                           DesktopBar_new(ui.state.desktops, ui.state.current,
                                                          WideScreen), p[1], p[2]))
  /\ pc' = IF ui'.should_exit THEN "ui_done" ELSE pc
  /\ UNCHANGED <<idleVars, paint, desk, probe>>

\* Event::KeyPress, of Escape, Return or another key
KeyPress ==
  /\ pc = "ui" /\ ~ui.should_exit
  /\ \E detail \in {9, 36, 38} :
       ui' = Handled("key", 0, 0, detail, handle_key_press(ui.input, detail))
  /\ pc' = IF ui'.should_exit THEN "ui_done" ELSE pc
  /\ UNCHANGED <<idleVars, paint, desk, probe>>

\* Event::MotionNotify
MotionNotify ==
  /\ pc = "ui" /\ ~ui.should_exit
  /\ \E p \in Pointers :
       ui' = Handled("motion", p[1], p[2], 0,
                     handle_motion(ui.input,
                                   DesktopBar_new(ui.state.desktops, ui.state.current,
                                                  WideScreen), p[1], p[2]))
  /\ UNCHANGED <<pc, idleVars, paint, desk, probe>>

\* the frame of the loop in which the snap animation is complete;
\* f: the fail point of move_window, whose error is logged
DragAnimationCompletes ==
  /\ pc = "ui" /\ ~ui.should_exit
  /\ ui.drag_animation.pending
  /\ \E f \in 0..2 :
       LET anim == ui.drag_animation
           moved == move_window(ui.state, anim.window_index, anim.desktop_idx,
                                [i \in 1..NumDeskWindows |-> i], f)
           removed_windows == ui.removed_windows \cup {anim.window_index}
           new_layouts == recalculate_filtered_layout(NumDeskWindows, removed_windows) IN
       ui' = [ui EXCEPT !.state = moved.state,
                        !.removed_windows = removed_windows,
                        !.input.layouts = new_layouts,
                        !.drag_animation = [pending |-> FALSE],
                        !.event = "snap"]
  /\ UNCHANGED <<pc, idleVars, paint, desk, probe>>

NextUi ==
  \/ ButtonPress
  \/ ButtonRelease
  \/ KeyPress
  \/ MotionNotify
  \/ DragAnimationCompletes
SpecUi == InitUi /\ [][NextUi]_vars

\* ---- properties ----
Live(c) == DOMAIN c.pixmaps \cup DOMAIN c.pictures \cup DOMAIN c.damages
\* the ids generated for window w since its counter stood at lo
Allocated(c, w, lo) == {w * IdBase + n : n \in lo..(c.nextId[w] - 1)}
\* a surface is a placeholder while its index is in placeholder_indices and
\* not yet on the upgraded list that is removed from it at the end of the block
IsPlaceholder(i) == i \in placeholder_indices /\ i \notin upgraded
SameSize(info, geom) == info.width = geom.width /\ info.height = geom.height
Requests(name) == {k \in DOMAIN xconn.wire : xconn.wire[k].req = name}

\* C1: a refresh that returns an error leaves the surface as it was, and the
\* pixmap and the picture it held before the call are still allocated.
C1_FailedRefreshRetainsHandles ==
  (last.op = "refresh_capture" /\ ~last.ok) =>
    /\ captures[last.idx] = last.pre
    /\ last.alive.pixmap => last.pre.pixmap \in DOMAIN xconn.pixmaps
    /\ last.alive.picture => last.pre.picture \in DOMAIN xconn.pictures

\* C2: try_upgrade on a placeholder either returns true, the surface is no
\* longer a placeholder and has another picture; or returns false, the surface
\* is unchanged and every handle it held is still allocated.
C2_UpgradeTwoOutcomes ==
  last.op = "try_upgrade_placeholder" =>
    IF last.ok
    THEN /\ ~IsPlaceholder(last.idx)
         /\ captures[last.idx].picture # last.pre.picture
    ELSE /\ captures[last.idx] = last.pre
         /\ IsPlaceholder(last.idx)
         /\ Alive(xconn, last.pre) = last.alive
C2_Witness ==
  /\ last.op = "try_upgrade_placeholder" /\ last.ok
  /\ last.alive.picture
  /\ pc = "frame_end" /\ last.idx \notin placeholder_indices

\* C3: try_upgrade frees an old handle only after the GetGeometry and the
\* CreatePicture for the new pair, which is then valid; a failed attempt frees
\* no old handle and leaves none of the ids it generated allocated.
C3_UpgradeFreesOldAfterNew ==
  last.op = "try_upgrade_placeholder" =>
    LET w == xconn.wire
        new == Allocated(xconn, last.win, last.id0)
        frees == {k \in DOMAIN w : \/ w[k] = [req |-> "FreePixmap", id |-> last.pre.pixmap]
                                   \/ w[k] = [req |-> "FreePicture", id |-> last.pre.picture]} IN
    /\ \A k \in frees :
         \E i, j \in 1..(k - 1) :
           /\ w[i].req = "GetGeometry" /\ w[i].id \in new \cap DOMAIN xconn.pixmaps
           /\ w[j].req = "CreatePicture" /\ w[j].id \in new \cap DOMAIN xconn.pictures
           /\ i < j
    /\ frees # {} => last.ok
    /\ ~last.ok => new \cap Live(xconn) = {}
C3_Witness ==
  /\ last.op = "try_upgrade_placeholder" /\ last.ok
  /\ last.alive.pixmap /\ last.alive.picture
  /\ Requests("FreePixmap") # {} /\ Requests("FreePicture") # {}
  /\ last.pre.pixmap \notin DOMAIN xconn.pixmaps

C6_ReleasedAtSessionEnd ==
  pc = "done" => xconn.redirected = {} /\ Live(xconn) = {}

\* C7: release issues all four requests whichever of them fails.
C7_ReleaseAttemptsAllFour ==
  last.op = "release_capture" =>
    /\ Requests("DamageDestroy") # {}
    /\ Requests("FreePicture") # {}
    /\ Requests("FreePixmap") # {}
    /\ Requests("UnredirectWindow") # {}

\* C8: after a failed acquire none of the ids generated in the call is
\* allocated on the server.
C8_FailedAcquireLeaksNothing ==
  (last.op = "capture_window" /\ ~last.ok) =>
    Allocated(xconn, last.win, last.id0) \cap Live(xconn) = {}

\* C9: after a successful acquire the recorded width and height are those of
\* the named pixmap and the other fields are those of the input.
AcquiredByLast ==
  IF last.win \in Windows THEN captures[Len(captures)]
  ELSE skipped_captures[Len(skipped_captures)]
C9_AcquireRecordsBufferGeometry ==
  (last.op = "capture_window" /\ last.ok) =>
    LET cap == AcquiredByLast IN
    /\ cap.pixmap \in DOMAIN xconn.pixmaps
    /\ SameSize(cap.info, xconn.pixmaps[cap.pixmap])
    /\ cap.info.frame_window = last.win
    /\ cap.info.x = WindowInfo(last.win).x
C9_Witness ==
  /\ last.op = "capture_window" /\ last.ok
  /\ ~SameSize(WindowInfo(last.win), xconn.pixmaps[AcquiredByLast.pixmap])
  /\ SameSize(AcquiredByLast.info, winGeom[last.win])

\* C10: the recorded size of a non-placeholder surface is the size of the
\* pixmap it holds.
C10_RecordedSizeIsBufferSize ==
  \A i \in 1..Len(captures) :
    (~IsPlaceholder(i) /\ captures[i].pixmap \in DOMAIN xconn.pixmaps) =>
      SameSize(captures[i].info, xconn.pixmaps[captures[i].pixmap])

\* the captured surfaces of the session: managed, then skipped
AllCaptures == captures \o skipped_captures

\* C11: the pixmap and the picture of a captured surface are both allocated on
\* the server or both not.
C11_PixmapAndPictureTogether ==
  \A i \in DOMAIN AllCaptures :
    (AllCaptures[i].pixmap \in DOMAIN xconn.pixmaps)
      <=> (AllCaptures[i].picture \in DOMAIN xconn.pictures)

\* C12: between two steps of the capture phase and of the event loop, every
\* redirected window has a damage object that a captured surface holds.
C12_RedirectedHasDamage ==
  pc \in {"capture", "skipped", "wait", "refresh", "upgrade", "frame_end"} =>
    \A w \in xconn.redirected :
      \E i \in DOMAIN AllCaptures :
        /\ AllCaptures[i].info.frame_window = w
        /\ AllCaptures[i].damage \in DOMAIN xconn.damages
        /\ xconn.damages[AllCaptures[i].damage] = w

\* C13: no two captured surfaces, managed or skipped, are of the same window.
C13_OneSurfacePerWindow ==
  \A i, j \in DOMAIN AllCaptures :
    AllCaptures[i].info.frame_window = AllCaptures[j].info.frame_window => i = j
C13_Witness ==
  /\ pc = "wait"
  /\ Len(captures) = NumWindows /\ Len(skipped_captures) = NumSkipped
  /\ placeholder_indices # {}

\* C14: every captured surface named by a notification of the batch has had
\* its damage acknowledged in the same iteration.
C14_NotifiedIsAcknowledged ==
  \A i \in notified : AllCaptures[i].damage \in frame.acked

Inside(a, b) ==
  /\ a.x >= b.x /\ a.y >= b.y
  /\ a.x + a.width <= b.x + b.width /\ a.y + a.height <= b.y + b.height
Apart(a, b) ==
  \/ a.x + a.width <= b.x \/ b.x + b.width <= a.x
  \/ a.y + a.height <= b.y \/ b.y + b.height <= a.y
\* the surfaces of the batch's pending set
Pending == notified \cap (1..Len(captures))
AfterDamageBlock == pc \in {"upgrade", "frame_end"} /\ last.op # "try_upgrade_placeholder"

C17_PlaceholderComplete ==
  (last.op = "create_placeholder_capture" /\ last.ok) =>
    LET cap == captures[Len(captures)]
        new == Allocated(xconn, last.win, last.id0) IN
    /\ last.win \in xconn.redirected
    /\ cap.pixmap \in new \cap DOMAIN xconn.pixmaps
    /\ SameSize(WindowInfo(last.win), xconn.pixmaps[cap.pixmap])
    /\ cap.picture \in new \cap DOMAIN xconn.pictures
    /\ xconn.pictures[cap.picture] = cap.pixmap
    /\ cap.damage \in new \cap DOMAIN xconn.damages
    /\ xconn.damages[cap.damage] = last.win
    /\ Len(captures) \in placeholder_indices

HasFormat(s) ==
  \E k \in DOMAIN s.formats :
    s.formats[k].depth = s.root_depth /\ s.formats[k].type_ = "DIRECT"
\* Composite is present with version 0.2 or later
CompositeOk(s) ==
  /\ s.composite.present
  /\ s.composite.major_version > 0 \/ s.composite.minor_version >= 2
Duplicates(q) == \E i, j \in DOMAIN q : i # j /\ q[i] = q[j]

C20_FormatOfRootDepthAndDirect ==
  pc \in {"negotiated", "failed"} =>
    LET s == setup
        r == negotiated IN
    /\ r.ok => \E k \in DOMAIN s.formats :
                 /\ s.formats[k].id = r.pict_format_rgb
                 /\ s.formats[k].depth = s.root_depth
                 /\ s.formats[k].type_ = "DIRECT"
    /\ (s.display /\ CompositeOk(s) /\ s.render /\ s.damage) =>
         IF HasFormat(s) THEN r.ok
         ELSE ~r.ok /\ r.err = "NoPictFormat" /\ r.pict_format_rgb = 0 /\ pc = "failed"
C20_Witness ==
  /\ pc = "negotiated"
  /\ Len(setup.formats) = 2
  /\ setup.formats[1].depth = setup.root_depth /\ setup.formats[1].type_ = "INDEXED"
  /\ negotiated.pict_format_rgb = setup.formats[2].id

\* the calls of a frame that composite a thumbnail
ThumbnailCalls(calls) ==
  {i \in DOMAIN calls : calls[i] \in {"render_thumbnail", "render_thumbnail_animated"}}
\* the frame composites every layout that is not being dragged
RepaintsAll(fr) == Cardinality(ThumbnailCalls(fr.calls)) >= fr.layouts - fr.excluded

\* C21: in every frame of run() that composites all thumbnails onto the
\* overview pixmap, clear_overview is the first renderer call of the frame.
C21_ClearPrecedesRepaint ==
  (paint.op = "frame" /\ RepaintsAll(paint)) => paint.calls[1] = "clear_overview"
\* C22: a present_overview that returns Ok has issued ConfigureWindow with
\* stack mode ABOVE, CopyArea of the whole pixmap and a flush, in this order
\* and nothing else; one that returns Err has issued the requests before the
\* failing one.
PresentRequests == <<"ConfigureWindow(ABOVE)", "CopyArea", "flush">>
C22_PresentRaisesBlitsFlushes ==
  paint.op = "present_overview" =>
    /\ paint.ok => paint.conn.wire = PresentRequests
    /\ ~paint.ok => \E n \in 0..2 : paint.conn.wire = SubSeq(PresentRequests, 1, n)
C22_Witness == paint.op = "present_overview" /\ paint.ok /\ Len(paint.conn.wire) = 3

IsThumbnailCall == paint.op \in {"render_thumbnail", "render_thumbnail_animated"}
ZeroArea(layout) == layout.width = 0 \/ layout.height = 0

\* C23: a thumbnail composited at the size of its source uses the nearest
\* filter, one composited at another size the bilinear filter.
C23_FilterByScale ==
  (IsThumbnailCall /\ paint.ok /\ ~ZeroArea(paint.layout)) =>
    paint.conn.filter =
      IF paint.layout.width = paint.src_width /\ paint.layout.height = paint.src_height
      THEN "nearest" ELSE "bilinear"

\* C24: render_thumbnail and render_thumbnail_animated with a layout of zero
\* width or zero height return Ok, issue no request and leave the transform
\* and the filter of the source picture and the destination as they were.
C24_ZeroAreaIsNoOp ==
  (IsThumbnailCall /\ ZeroArea(paint.layout)) =>
    /\ paint.ok
    /\ paint.conn = RenderConn(paint.src)
    /\ paint.conn.wire = <<>> /\ paint.conn.painted = {}
C24_Witness ==
  /\ paint.op = "render_thumbnail"
  /\ paint.layout.width = 0 /\ paint.layout.height = MaxSide
  /\ paint.src_width = MaxSide
  /\ paint.src.filter = "nearest"
  /\ paint.ok

\* C25: render_window_with_opacity with opacity <= 0 returns Ok, issues no
\* request, allocates no mask and changes nothing; with opacity > 0 no mask
\* picture of the call is left on the server when it returns.
C25_OpacityNoOpAndMaskFreed ==
  paint.op = "render_window_with_opacity" =>
    /\ paint.opacity <= 0 =>
         /\ paint.ok
         /\ paint.conn = RenderConn(paint.src)
         /\ paint.conn.allocated = {}
    /\ paint.opacity > 0 => paint.conn.masks = {}

\* v is the 16.16 fixed-point value of num / den, truncated
IsFixedOf(v, num, den) ==
  /\ v \div Pow2(16) = num \div den
  /\ (v % Pow2(16)) * den <= (num % den) * Pow2(16)
  /\ (num % den) * Pow2(16) < ((v % Pow2(16)) + 1) * den
Representable(num, den) == num \div den < Pow2(15)
DiagonalOnly(t) ==
  /\ t.matrix12 = 0 /\ t.matrix13 = 0 /\ t.matrix21 = 0
  /\ t.matrix23 = 0 /\ t.matrix31 = 0 /\ t.matrix32 = 0
  /\ t.matrix33 = 65536

\* C26 (as claimed): the transform set by a thumbnail call is diagonal, its x
\* and y entries are the 16.16 values of src / dst on each axis, 65536 when
\* the sizes are equal.
C26_ScaleIsFixedPointRatio ==
  (IsThumbnailCall /\ paint.ok /\ ~ZeroArea(paint.layout)) =>
    LET t == paint.conn.transform IN
    /\ DiagonalOnly(t)
    /\ IsFixedOf(t.matrix11, paint.src_width, paint.layout.width)
    /\ IsFixedOf(t.matrix22, paint.src_height, paint.layout.height)
    /\ paint.src_width = paint.layout.width => t.matrix11 = 65536
    /\ paint.src_height = paint.layout.height => t.matrix22 = 65536

\* C26: the transform set by a thumbnail call is diagonal; an entry is 65536
\* when source and destination size are equal, the truncated 16.16 value of
\* src / dst when src / dst < 32768, and 2^31 - 1 otherwise.
FixedOrSaturated(v, num, den) ==
  IF Representable(num, den) THEN IsFixedOf(v, num, den) ELSE v = i32_MAX
C26_ScaleIsFixedPointRatioOrSaturates ==
  (IsThumbnailCall /\ paint.ok /\ ~ZeroArea(paint.layout)) =>
    LET t == paint.conn.transform IN
    /\ DiagonalOnly(t)
    /\ FixedOrSaturated(t.matrix11, paint.src_width, paint.layout.width)
    /\ FixedOrSaturated(t.matrix22, paint.src_height, paint.layout.height)
    /\ paint.src_width = paint.layout.width => t.matrix11 = 65536
    /\ paint.src_height = paint.layout.height => t.matrix22 = 65536
C26_Witness ==
  /\ paint.op = "render_thumbnail" /\ paint.ok
  /\ paint.src_width = u16_MAX /\ paint.layout.width = 1
  /\ paint.src_height = MaxSide /\ paint.layout.height = MaxSide
  /\ paint.conn.transform.matrix11 = i32_MAX
  /\ paint.conn.transform.matrix22 = 65536

Entries(list) == {list[i] : i \in DOMAIN list}
\* the desktop that receives the windows of desktop d: its index before and
\* after the deletion
TargetBefore(d) == IF d = 0 THEN 1 ELSE d - 1
TargetAfter(d) == IF d = 0 THEN 0 ELSE d - 1

\* C27: delete_desktop(d) with desktops > 1 and d < desktops leaves one
\* desktop less, the windows of d on the adjacent desktop, the windows of the
\* desktops above d one desktop lower, and every entry of the stacking lists
\* of d and of the adjacent desktop in the stacking list of the adjacent
\* desktop; otherwise it returns Err and changes nothing.
C27_DeleteMovesAndMerges ==
  desk.op = "delete_desktop" =>
    LET b == desk.before
        a == desk.state
        d == desk.from IN
    IF b.desktops > 1 /\ d < b.desktops
    THEN /\ a.desktops = b.desktops - 1
         /\ \A w \in DOMAIN b.windows :
              a.windows[w] = IF b.windows[w] = d THEN TargetAfter(d)
                             ELSE IF b.windows[w] > d THEN b.windows[w] - 1
                             ELSE b.windows[w]
         /\ \A k \in {d, TargetBefore(d)} \cap DOMAIN b.stacking :
              /\ TargetAfter(d) \in DOMAIN a.stacking
              /\ Entries(b.stacking[k]) \subseteq Entries(a.stacking[TargetAfter(d)])
    ELSE ~desk.ok /\ a = b

Bijections(D) == {m \in [D -> D] : \A i, j \in D : m[i] = m[j] => i = j}

\* C28: reorder_desktop(from, to) with from < desktops renumbers the desktops by
\* a permutation that keeps the order of the desktops other than `from` and
\* puts `from` right before the desktop that was at `to`, last when
\* to >= desktops; the windows, the stacking lists and the current desktop
\* follow it; nothing changes when from = to or from + 1 = to, and nothing
\* changes and Err is returned when from >= desktops.
C28_ReorderIsPermutation ==
  desk.op = "reorder_desktop" =>
    LET b == desk.before
        a == desk.state
        n == desk.before.desktops
        from == desk.from
        to == desk.to IN
    IF from >= n THEN ~desk.ok /\ a = b
    ELSE /\ \E m \in Bijections(0..(n - 1)) :
              /\ \A i, j \in (0..(n - 1)) \ {from} : i < j => m[i] < m[j]
              /\ IF to >= n THEN m[from] = n - 1
                 ELSE IF to = from THEN m[from] = from
                 ELSE m[from] + 1 = m[to]
              /\ a.desktops = n
              /\ a.windows = [w \in DOMAIN b.windows |-> m[b.windows[w]]]
              /\ DOMAIN a.stacking = {m[k] : k \in DOMAIN b.stacking}
              /\ \A k \in DOMAIN b.stacking : a.stacking[m[k]] = b.stacking[k]
              /\ a.current = m[b.current]
         /\ (from = to \/ from + 1 = to) => (desk.ok /\ a = b)
C28_Witness ==
  /\ desk.op = "reorder_desktop" /\ desk.ok
  /\ desk.before.desktops = MaxDesktops
  /\ desk.from = 0 /\ desk.to = MaxDesktops
  /\ desk.before.current = 0 /\ desk.state.current = MaxDesktops - 1
  /\ desk.before.windows[1] = 0 /\ desk.before.windows[2] = 1
  /\ DOMAIN desk.before.stacking = {0, 1}
  /\ desk.before.stacking[0] = <<1>> /\ desk.before.stacking[1] = <<2>>
  /\ desk.state.stacking[MaxDesktops - 1] = <<1>> /\ desk.state.stacking[0] = <<2>>

\* the point (x, y) lies in the rectangle with corner (rx, ry) and the given size
InRect(x, y, rx, ry, width, height) ==
  x >= rx /\ x < rx + width /\ y >= ry /\ y < ry + height
InPlusButton(bar, x, y) ==
  InRect(x, y, bar.plus_button.x, bar.plus_button.y, bar.plus_button.size,
         bar.plus_button.size)
InPreview(bar, k, x, y) ==
  LET p == bar.preview_layouts[k] IN InRect(x, y, p.x, p.y, p.width, p.height)
InDeleteButton(bar, k, x, y) ==
  LET p == bar.preview_layouts[k] IN
  InRect(x, y, p.x + p.delete_button_x, p.y + p.delete_button_y,
         p.delete_button_size, p.delete_button_size)

\* C29: hit_test depends on the point alone: inside the plus button it is
\* PlusButton; otherwise inside preview i it is Desktop(i), or DeleteButton(i)
\* when the point is inside that preview's delete button and there is more
\* than one desktop; inside no element it is None; and contains_point holds
\* exactly for 0 <= y < bar_height.
C29_HitTestByElement ==
  /\ probe.op = "hit_test" =>
       LET bar == probe.bar
           x == probe.x
           y == probe.y IN
       /\ InPlusButton(bar, x, y) => probe.hit = HitPlusButton
       /\ ~InPlusButton(bar, x, y) =>
            /\ \A k \in DOMAIN bar.preview_layouts :
                 InPreview(bar, k, x, y) =>
                   probe.hit = IF bar.num_desktops > 1 /\ InDeleteButton(bar, k, x, y)
                               THEN HitDeleteButton(k - 1)
                               ELSE HitDesktop(k - 1)
            /\ (\A k \in DOMAIN bar.preview_layouts : ~InPreview(bar, k, x, y))
                 => probe.hit = HitNone
  /\ probe.op = "contains_point" =>
       (probe.contains <=> (0 <= probe.y /\ probe.y < probe.bar.bar_height))
C29_Witness ==
  /\ probe.op = "hit_test"
  /\ probe.bar.num_desktops = 2
  /\ ~InPlusButton(probe.bar, probe.x, probe.y)
  /\ InDeleteButton(probe.bar, 2, probe.x, probe.y)
  /\ probe.hit = HitDeleteButton(1)

\* C30: for every count >= 1 and every available area, optimal_grid returns
\* cols >= 1 and rows >= 1 with cols * rows >= count.
C30_GridHoldsEveryWindow ==
  (probe.op = "optimal_grid" /\ probe.count >= 1) =>
    /\ ~probe.grid.panicked
    /\ \/ probe.grid.saturated /\ probe.grid.rows >= 1
       \/ /\ ~probe.grid.saturated
          /\ probe.grid.cols >= 1
          /\ probe.grid.rows >= 1
          /\ probe.grid.cols * probe.grid.rows >= probe.count

\* the stacking list of desktop d in a state, empty when there is none
StackingOf(state, d) == IF d \in DOMAIN state.stacking THEN state.stacking[d] ELSE <<>>
MovedToDestination ==
  /\ desk.state.windows[desk.window] = desk.to
  /\ desk.window \notin desk.state.app_hidden
  /\ StackingOf(desk.state, desk.to) # <<>>
  /\ StackingOf(desk.state, desk.to)[Len(StackingOf(desk.state, desk.to))] = desk.window

\* C33: move_window to a desktop index >= the desktop count returns an error
\* and leaves the desktop state unchanged; a successful move leaves the
\* window assigned to the destination, not app-hidden, last in the
\* destination's stacking list and absent from the stacking list of its
\* previous desktop.
C33_MoveWindowMoves ==
  (pc = "ops" /\ desk.op = "move_window") =>
    /\ desk.to >= desk.before.desktops => (~desk.ok /\ desk.state = desk.before)
    /\ (desk.to < desk.before.desktops /\ desk.ok) =>
         /\ MovedToDestination
         /\ desk.window \in DOMAIN desk.before.windows =>
              desk.window \notin
                Entries(StackingOf(desk.state, desk.before.windows[desk.window]))

\* C33, amended: as above, with the window absent from the stacking list of
\* its previous desktop when that desktop is not the destination.
C33_MoveWindowMovesBetweenDesktops ==
  (pc = "ops" /\ desk.op = "move_window") =>
    /\ desk.to >= desk.before.desktops => (~desk.ok /\ desk.state = desk.before)
    /\ (desk.to < desk.before.desktops /\ desk.ok) =>
         /\ MovedToDestination
         /\ (/\ desk.window \in DOMAIN desk.before.windows
             /\ desk.before.windows[desk.window] # desk.to) =>
              desk.window \notin
                Entries(StackingOf(desk.state, desk.before.windows[desk.window]))
C33_Witness ==
  /\ pc = "ops" /\ desk.op = "move_window" /\ desk.ok
  /\ desk.window \in DOMAIN desk.before.windows
  /\ desk.before.windows[desk.window] # desk.to
  /\ desk.before.windows[desk.window] # desk.before.current
  /\ desk.window \in Entries(StackingOf(desk.before, desk.before.windows[desk.window]))
  /\ StackingOf(desk.before, desk.to) # <<>>
  /\ Len(StackingOf(desk.state, desk.to)) = 2
  /\ desk.window \in desk.before.app_hidden

\* C34: from a state with desktops >= 1, current < desktops and every window
\* assignment < desktops, every sequence of get_window_desktop, move_window,
\* set_desktop_count, delete_desktop, reorder_desktop and switch_to_desktop,
\* successful or failing, keeps desktops >= 1, current < desktops, every
\* window assignment < desktops and every stacking key < desktops.
C34_DesktopStateInRange ==
  pc = "ops" =>
    /\ desk.state.desktops >= 1
    /\ desk.state.current < desk.state.desktops
    /\ \A w \in DOMAIN desk.state.windows : desk.state.windows[w] < desk.state.desktops
    /\ \A k \in DOMAIN desk.state.stacking : k < desk.state.desktops

\* the bar of the session in progress
UiBar == DesktopBar_new(ui.state.desktops, ui.state.current, WideScreen)
\* the pointer at <<x, y>> is more than the drag threshold from the press
\* point of the pending drag on the x or the y axis
Exceeds(drag, x, y) ==
  \/ x - drag.start_x > DRAG_THRESHOLD
  \/ drag.start_x - x > DRAG_THRESHOLD
  \/ y - drag.start_y > DRAG_THRESHOLD
  \/ drag.start_y - y > DRAG_THRESHOLD

\* C31: a release after a left press on a thumbnail clears the drag state and
\* has one outcome: SelectWindow(w) of the pressed thumbnail's window if the
\* pointer never moved more than the drag threshold; if the drag became
\* active, DropOnDesktop(w, d) when released over the desktop preview d and
\* CancelDrag otherwise; a release with no pending press yields no action.
C31_ReleaseResolvesPress ==
  pc = "ui" =>
    \A p \in Pointers :
      LET drag == ui.input.drag_state
          r == handle_button_release(ui.input, UiBar, p[1], p[2])
          over == {k \in DOMAIN UiBar.preview_layouts : InPreview(UiBar, k, p[1], p[2])} IN
      /\ ~r.h.drag_state.pending
      /\ ~drag.pending => r.action = <<"None">>
      /\ (drag.pending /\ ~ui.far) => r.action = <<"SelectWindow", drag.window_index>>
      /\ (drag.pending /\ drag.is_active) =>
           /\ \A k \in over : r.action = <<"DropOnDesktop", drag.window_index, k - 1>>
           /\ over = {} => r.action = <<"CancelDrag">>

\* C32: between a left press on a thumbnail and the release, StartDrag is
\* emitted at most once, at the first motion that is more than 5 pixels from
\* the press point on the x or the y axis and at no other motion; no DragMove
\* is emitted before it, every motion after it yields DragMove, and no
\* motion, key press or press that leaves the pending drag in place makes an
\* active drag inactive.
C32_StartDragOnceAtThreshold ==
  pc = "ui" =>
    /\ ui.starts <= 1
    /\ ui.input.drag_state.pending =>
         LET drag == ui.input.drag_state IN
         /\ ui.far <=> ui.starts = 1
         /\ drag.is_active <=> ui.starts = 1
         /\ \A p \in Pointers :
              LET r == handle_motion(ui.input, UiBar, p[1], p[2]) IN
              /\ r.action[1] = "StartDrag" <=> (Exceeds(drag, p[1], p[2]) /\ ~ui.far)
              /\ r.action[1] = "StartDrag" => r.action = <<"StartDrag", drag.window_index>>
              /\ r.action[1] = "DragMove" => ui.starts = 1
              /\ ui.starts = 1 => r.action = <<"DragMove", p[1], p[2]>>
              /\ r.h.drag_state.pending
              /\ drag.is_active => r.h.drag_state.is_active
         /\ \A detail \in {9, 36, 38} : handle_key_press(ui.input, detail).h.drag_state = drag
         /\ \A p \in Pointers, detail \in {1, 3} :
              LET r == handle_button_press(ui.input, UiBar, p[1], p[2], detail) IN
              \/ r.h.drag_state = drag
              \/ /\ detail = 1
                 /\ r.h.drag_state = [pending |-> TRUE, window_index |-> r.h.drag_state.window_index,
                                      start_x |-> p[1], start_y |-> p[2], is_active |-> FALSE]
C32_Witness ==
  /\ pc = "ui" /\ ui.event = "motion"
  /\ ui.input.drag_state.pending /\ ui.input.drag_state.is_active
  /\ ui.starts = 1 /\ ui.far /\ ui.last_drag_rect
  /\ ui.input.drag_state.start_y = 180

\* the capture indices of the layouts of the grid
GridWindows == {ui.input.layouts[k].window_index : k \in DOMAIN ui.input.layouts}

\* C35: in the normal exit animation every window still in the grid moves
\* from its grid rectangle to its own geometry on the screen: the layout
\* animated at each position of the grid keeps the window index of the
\* grid's layout and ends at the x of that window, also after a drop has
\* removed windows from the grid.
C35_ExitPairsSameWindow ==
  (pc = "ui_done" /\ ui.selected_desktop = -1) =>
    \A k \in DOMAIN ui.input.layouts :
      /\ k \in DOMAIN ui.exit
      /\ ui.exit[k].window_index = ui.input.layouts[k].window_index
      /\ ui.exit[k].x = WindowInfo(ui.exit[k].window_index).x

\* C36: when a drop on a desktop has completed, the windows laid out in the
\* grid are the captured windows that the desktop state reports visible on
\* the current desktop.
C36_GridIsVisibleSet ==
  (pc = "ui" /\ ui.event = "snap") =>
    GridWindows = {w \in DeskWindows : is_visible_on(ui.state, w, ui.state.current)}

\* C37: a window selected by a click or the Enter key, and the window raised
\* and focused at the end, is in the grid's layouts at that moment.
C37_SelectedWindowInGrid ==
  pc = "ui_done" =>
    /\ ui.selected_window # 0 => ui.selected_window \in GridWindows
    /\ ui.raised # 0 => ui.raised \in GridWindows

\* C38: at the end of the session every window visible on the desktop that
\* is then current is mapped and at the x it had at the start, and every
\* window moved off-screen at the start is unmapped or back at that x.
C38_WindowsRestoredAtExit ==
  pc = "ui_done" =>
    /\ \A w \in DeskWindows :
         is_visible_on(ui.state, w, ui.state.current) =>
           (w \in ui.mapped /\ ui.x[w] = WindowInfo(w).x)
    /\ \A w \in ui.offscreen : w \notin ui.mapped \/ ui.x[w] = WindowInfo(w).x
====
